---- MODULE Spec2Model ----
(***************************************************************************)
(* The transactional commit engine of libsvn_fs_x (transaction.c): the     *)
(* lock manager, the shared-transaction registry, transaction creation,    *)
(* the rep write stream's use of the proto-rev lock, and the commit        *)
(* pipeline, as a state machine over the on-disk repository, the           *)
(* per-process shared data and the per-thread position in each call.       *)
(*                                                                         *)
(* Two threads run calls, either both in one process or each in its own.   *)
(* Every thread has its own svn_fs_t.  A step that does file I/O may fail  *)
(* and then takes the SVN_ERR exit of the code.  A process may crash at    *)
(* any step; the operating system then drops its file locks.               *)
(*                                                                         *)
(* Pools: a file lock taken with svn_io_file_lock2, or a lock file opened  *)
(* with svn_io_file_open, is released when its pool is destroyed.  The     *)
(* pool handed in by the caller is cleared by the caller after the call    *)
(* has returned (ClearPool).                                               *)
(***************************************************************************)
EXTENDS Integers, Sequences, FiniteSets, TLC

\* ---------------------------------------------------------------- bounds
MaxRev == 2        \* no commit starts once youngest has reached MaxRev
MaxProto == 2      \* no append once a proto-rev file holds MaxProto items
MaxInitRev == 1    \* the repository starts at a youngest in 0..MaxInitRev
MaxReserve == 2    \* ids of one kind a transaction reserves in the model
MaxHistory == 31   \* the longest predecessor chain of a node the model builds
MaxChanges == 2    \* change records in the changes log of a transaction
MaxTime == 2       \* the latest reading of the clock

\* two threads, in one process or in two
Workers == {1, 2}
Procs == {1, 2}
Layouts == {<<1, 1>>, <<1, 2>>}
Revs == 0..MaxRev
\* the transaction ids the counter hands out before the model stops minting
TxnIds == {0, 1}

\* ffd->max_files_per_dir: revisions per shard
max_files_per_dir == 2
\* ffd->rep_sharing_allowed
rep_sharing_allowed == TRUE

VARIABLES
  current,       \* the `current' file: youngest revision
  revs,          \* per revision: rev file, l2p, p2l, revprops in place
  txn_current,   \* the `txn-current' file: next transaction id
  txns,          \* per txn id: directory, base_rev, proto-rev file, rev-lock
  flocks,        \* advisory file locks: holder thread (0 = free)
  rep_cache,     \* txn ids whose reps were inserted into the rep-cache db
  mutex,         \* per process: fs_write_lock / txn_current_lock holder
  registry,      \* per process: ffsd->txns, list of (txn_id, being_written)
  th,            \* per thread: position and locals of the running call
  proc,          \* per thread: the process it runs in (fixed at start)
  hist           \* history: facts about completed steps, read by no action

vars == <<current, revs, txn_current, txns, flocks, rep_cache,
          mutex, registry, th, proc, hist>>

diskVars == <<current, revs, txn_current, txns, rep_cache>>

\* ------------------------------------------------------------ file values
\* per revision: whether each of its four files is at its final path
NoRev == [rev |-> FALSE, l2p |-> FALSE, p2l |-> FALSE, props |-> FALSE]
BaseRev == [rev |-> TRUE, l2p |-> TRUE, p2l |-> TRUE, props |-> TRUE]

\* a transaction that has no files at all
\* (owner: the thread that has the svn_fs_txn_t, 0 when every thread has
\* opened the transaction by name)
\* (changes: entries in the changes file, -1 when there is no file;
\* next_ids, item_index: content of the next-ids and item-index files as a
\* sequence of characters, empty when there is no file; noderev: the txn
\* root node-rev file)
NoNodeRev == [predecessor_id |-> 0 - 1, predecessor_count |-> 0 - 1,
              copyfrom_rev |-> 0 - 1]

NoTxnFiles == [owner |-> 0, dir |-> FALSE, root |-> FALSE, base_rev |-> 0,
               proto |-> 0 - 1, lock |-> FALSE,
               changes |-> 0 - 1, next_ids |-> <<>>, item_index |-> <<>>,
               noderev |-> NoNodeRev]

\* the root node-revs svn_fs_x__get_node_revision may return for revision
\* REV: the id is (node 0, change set REV), predecessor_count equals REV
\* (validate_root_noderev), the copyfrom revision is some revision or
\* SVN_INVALID_REVNUM (-1)
RootNodeRevs(rev) ==
  {[id |-> rev, predecessor_count |-> rev, copyfrom_rev |-> c] :
     c \in {0 - 1, rev}}

\* create_new_txn_noderev_from_rev lines 949-957: the txn root made of SRC
create_new_txn_noderev_from_rev(src) ==
  [predecessor_id |-> src.id,
   predecessor_count |-> src.predecessor_count + 1,
   copyfrom_rev |-> 0 - 1]

\* the files of a transaction that svn_fs_x__create_txn has just made on
\* revision REV for thread OWNER: root node-rev, empty proto-rev, rev-lock
\* and changes files, next-ids "0 0\n"
FreshTxn(owner, rev, src) ==
  [owner |-> owner, dir |-> TRUE, root |-> TRUE, base_rev |-> rev,
   proto |-> 0, lock |-> TRUE, changes |-> 0,
   next_ids |-> <<"0", " ", "0", "\n">>, item_index |-> <<>>,
   noderev |-> create_new_txn_noderev_from_rev(src)]

\* proto-rev file of T: size in items, -1 when the file does not exist
ProtoExists(t) == txns[t].proto >= 0

\* thread W has a handle of the existing transaction T, which no thread is
\* aborting
HasTxn(w, t) ==
  /\ txns[t].dir /\ txns[t].root /\ txns[t].owner \in {0, w}
  /\ \A v \in Workers : ~(th[v].op = "abort" /\ th[v].txn = t)

\* ------------------------------------------------------- thread-local data
\* pc: position; op: the running call; txn: its transaction (begin: the
\* minted id); rev: begin's base revision; old_rev/new_rev: commit_body's
\* locals; committed: *new_rev_p has been set; lockcookie: an open, locked
\* rev-lock file handle; offset: initial_offset / rep_offset; cleanup:
\* rep_write_cleanup is registered; pool: file locks owned by a live pool.
Idle == [pc |-> "idle", op |-> "none", txn |-> 0, rev |-> 0, err |-> "OK",
         old_rev |-> 0, new_rev |-> 0, committed |-> FALSE,
         has_write_lock |-> FALSE, lockcookie |-> FALSE,
         offset |-> 0, cleanup |-> FALSE, pool |-> {}]

Set(w, r) == th' = [th EXCEPT ![w] = r @@ th[w]]

At(w, pc) == th[w].pc = pc

\* ------------------------------------------------------------------ Init
Init ==
  /\ current \in 0..MaxInitRev
  /\ revs = [r \in Revs |-> IF r <= current THEN BaseRev ELSE NoRev]
  /\ txn_current = 0
  /\ txns = [t \in TxnIds |-> NoTxnFiles]
  /\ flocks = [write |-> 0, txncur |-> 0, proto |-> [t \in TxnIds |-> 0]]
  /\ rep_cache = {}
  /\ mutex = [p \in Procs |-> [write |-> 0, txncur |-> 0]]
  /\ registry = [p \in Procs |-> <<>>]
  /\ th = [w \in Workers |-> Idle]
  /\ proc \in Layouts
  /\ hist = [current0 |-> current, minted |-> <<>>, assigned |-> <<>>]

\* ------------------------------------------------ shared-txn registry (4.2)
\* index of TXN_ID's object in the list LST, 0 if there is none
RegIndex(lst, txn_id) ==
  IF \E i \in 1..Len(lst) : lst[i].txn_id = txn_id
  THEN CHOOSE i \in 1..Len(lst) :
         /\ lst[i].txn_id = txn_id
         /\ \A j \in 1..(i - 1) : lst[j].txn_id # txn_id
  ELSE 0

\* get_shared_txn: the list after the call (a new object is linked at the head)
get_shared_txn(lst, txn_id, create_new) ==
  IF RegIndex(lst, txn_id) # 0 \/ ~create_new
  THEN lst
  ELSE <<[txn_id |-> txn_id, being_written |-> FALSE]>> \o lst

\* free_shared_txn: the list after the call
free_shared_txn(lst, txn_id) ==
  LET i == RegIndex(lst, txn_id)
  IN IF i = 0 THEN lst
     ELSE SubSeq(lst, 1, i - 1) \o SubSeq(lst, i + 1, Len(lst))

being_written(lst, txn_id) ==
  RegIndex(lst, txn_id) # 0 /\ lst[RegIndex(lst, txn_id)].being_written

SetBeingWritten(lst, txn_id, b) ==
  [lst EXCEPT ![RegIndex(lst, txn_id)].being_written = b]

\* unlock_proto_rev_body: its result for transaction TXN_ID in list LST
unlock_proto_rev_err(lst, txn_id) ==
  IF RegIndex(lst, txn_id) = 0 THEN "Corrupt"
  ELSE IF ~being_written(lst, txn_id) THEN "Corrupt"
  ELSE "OK"

\* ---------------------------------------------------- lock manager (4.1)
\* the mutex / sentinel file an operation's with_some_lock_file call uses:
\* svn_fs_x__with_write_lock for commit, with_txn_current_lock for begin
LockOf(op) == IF op = "commit" THEN "write" ELSE "txncur"
is_global_lock(op) == op = "commit"

\* what the destruction of a pool releases: the file locks the pool owns
\* and, when it holds the open rev-lock handle, that handle's file lock
ReleasedFlocks(w, names, cookie) ==
  [write |-> IF "write" \in names /\ flocks.write = w THEN 0 ELSE flocks.write,
   txncur |-> IF "txncur" \in names /\ flocks.txncur = w
              THEN 0 ELSE flocks.txncur,
   proto |-> [t \in TxnIds |->
                IF cookie /\ t = th[w].txn /\ flocks.proto[t] = w
                THEN 0 ELSE flocks.proto[t]]]

\* SVN_MUTEX__WITH_LOCK: take the in-process mutex (blocks while it is held)
LockMutex(w) ==
  /\ At(w, "mutex")
  /\ mutex[proc[w]][LockOf(th[w].op)] = 0
  /\ mutex' = [mutex EXCEPT ![proc[w]][LockOf(th[w].op)] = w]
  /\ Set(w, [pc |-> "flock"])
  /\ UNCHANGED <<diskVars, flocks, registry, proc, hist>>

\* variant of get_lock_on_filesystem: the file lock excludes nobody
get_lock_on_filesystem_shared(w) ==
  LET l == LockOf(th[w].op) IN
  /\ At(w, "flock")
  /\ \/ /\ flocks' = [flocks EXCEPT ![l] = w]
        /\ Set(w, [pc |-> "refresh", pool |-> th[w].pool \cup {l},
                   has_write_lock |-> is_global_lock(th[w].op)])
     \/ /\ Set(w, [pc |-> "destroy", err |-> "IO"])
        /\ UNCHANGED flocks
  /\ UNCHANGED <<diskVars, mutex, registry, proc, hist>>

\* get_lock_on_filesystem, then lines 232-244 of with_some_lock_file:
\* svn_io_file_lock2 blocks while another holder has the lock; a missing
\* lock file is created and the lock retried once; on success the global
\* lock sets has_write_lock and registers reset_lock_flag with the subpool
get_lock_on_filesystem(w) ==
  LET l == LockOf(th[w].op) IN
  /\ At(w, "flock")
  /\ \/ /\ flocks[l] = 0
        /\ flocks' = [flocks EXCEPT ![l] = w]
        /\ Set(w, [pc |-> "refresh", pool |-> th[w].pool \cup {l},
                   has_write_lock |-> is_global_lock(th[w].op)])
     \/ /\ Set(w, [pc |-> "destroy", err |-> "IO"])
        /\ UNCHANGED flocks
  /\ UNCHANGED <<diskVars, mutex, registry, proc, hist>>

\* with_some_lock_file lines 246-250: refresh min-unpacked-rev and youngest.
\* A failure leaves through SVN_ERR: the subpool is not destroyed, the
\* mutex is released by SVN_MUTEX__WITH_LOCK and the call returns.
Refresh(w) ==
  /\ At(w, "refresh")
  /\ \/ /\ Set(w, [pc |-> IF th[w].op = "commit" THEN "c_youngest"
                                                  ELSE "b_read"])
        /\ UNCHANGED mutex
     \/ /\ Set(w, [pc |-> "ret", err |-> "IO"])
        /\ mutex' = [mutex EXCEPT ![proc[w]][LockOf(th[w].op)] = 0]
  /\ UNCHANGED <<diskVars, flocks, registry, proc, hist>>

\* variant of DestroySubpool: svn_fs_x__commit goes on to the rep-cache
\* whatever commit_body returned
DestroySubpool_onward(w) ==
  LET l == LockOf(th[w].op) IN
  /\ At(w, "destroy")
  /\ flocks' = ReleasedFlocks(w, {l}, th[w].op = "commit" /\ th[w].lockcookie)
  /\ mutex' = [mutex EXCEPT ![proc[w]][l] = 0]
  /\ Set(w, [pc |-> IF th[w].op = "begin"
                    THEN (IF th[w].err # "OK" THEN "ret" ELSE "b_mkdir")
                    ELSE IF rep_sharing_allowed THEN "c_repcache" ELSE "ret",
             pool |-> th[w].pool \ {l},
             lockcookie |-> IF th[w].op = "commit" THEN FALSE
                            ELSE th[w].lockcookie,
             has_write_lock |-> IF is_global_lock(th[w].op) /\ l \in th[w].pool
                                THEN FALSE ELSE th[w].has_write_lock])
  /\ UNCHANGED <<diskVars, registry, proc, hist>>

\* with_some_lock_file line 253, svn_pool_destroy(subpool): reset_lock_flag
\* runs, the file lock is released, files opened in the subpool are closed;
\* then SVN_MUTEX__WITH_LOCK releases the mutex and the caller goes on
DestroySubpool(w) ==
  LET l == LockOf(th[w].op) IN
  /\ At(w, "destroy")
  /\ flocks' = ReleasedFlocks(w, {l}, th[w].op = "commit" /\ th[w].lockcookie)
  /\ mutex' = [mutex EXCEPT ![proc[w]][l] = 0]
  /\ Set(w, [pc |-> IF th[w].err # "OK" THEN "ret"
                    ELSE IF th[w].op = "begin" THEN "b_mkdir"
                    ELSE IF rep_sharing_allowed THEN "c_repcache" ELSE "ret",
             pool |-> th[w].pool \ {l},
             lockcookie |-> IF th[w].op = "commit" THEN FALSE
                            ELSE th[w].lockcookie,
             has_write_lock |-> IF is_global_lock(th[w].op) /\ l \in th[w].pool
                                THEN FALSE ELSE th[w].has_write_lock])
  /\ UNCHANGED <<diskVars, registry, proc, hist>>

\* thread V is in a begin that has not yet stored the incremented counter
Minting(v) ==
  th[v].op = "begin" /\ th[v].pc \in {"mutex", "flock", "refresh",
                                      "b_read", "b_write"}

\* thread V is in a commit that has not yet set *new_rev_p nor failed
Committing(v) ==
  th[v].op = "commit" /\ ~th[v].committed /\ th[v].err = "OK"

\* a step whose file I/O fails: record the error and take the SVN_ERR exit
\* (the baton of a rep write stream keeps its rep_offset)
Fail(w, e, pc) ==
  Set(w, [pc |-> pc, err |-> e, rev |-> 0, old_rev |-> 0, new_rev |-> 0,
          offset |-> IF th[w].op = "rep" THEN th[w].offset ELSE 0])

\* ------------------------------------------------ transaction store (4.3)
\* svn_fs_x__create_txn(fs, rev) is called
StartBegin(w, rev) ==
  /\ At(w, "idle")
  /\ rev <= current
  /\ txn_current + Cardinality({v \in Workers : Minting(v)}) \in TxnIds
  /\ Set(w, [pc |-> "mutex", op |-> "begin", rev |-> rev])
  /\ UNCHANGED <<diskVars, flocks, mutex, registry, proc, hist>>

\* svn_fs_x__create_txn as one step: the id is taken from txn-current,
\* which is incremented, and the directory and files are created; or the
\* call fails after the increment and leaves the id unused
svn_fs_x__create_txn(w, rev) ==
  /\ At(w, "idle")
  /\ rev <= current
  /\ txn_current \in TxnIds
  /\ txn_current' = txn_current + 1
  /\ hist' = [hist EXCEPT !.minted = Append(@, txn_current)]
  /\ \/ \E src \in RootNodeRevs(rev) :
          txns' = [txns EXCEPT ![txn_current] = FreshTxn(w, rev, src)]
     \/ UNCHANGED txns
  /\ UNCHANGED <<current, revs, rep_cache, flocks, mutex, registry, th, proc>>

\* get_and_increment_txn_key_body lines 981-984: read and parse txn-current
ReadTxnCurrent(w) ==
  /\ At(w, "b_read")
  /\ \/ Set(w, [pc |-> "b_write", txn |-> txn_current])
     \/ Fail(w, "IO", "destroy")
  /\ UNCHANGED <<diskVars, flocks, mutex, registry, proc, hist>>

\* variant of WriteTxnCurrent: the counter is written back unchanged
WriteTxnCurrent_same(w) ==
  /\ At(w, "b_write")
  /\ \/ /\ txn_current' = th[w].txn
        /\ hist' = [hist EXCEPT !.minted = Append(@, th[w].txn)]
        /\ Set(w, [pc |-> "destroy"])
     \/ /\ Fail(w, "IO", "destroy")
        /\ UNCHANGED <<txn_current, hist>>
  /\ UNCHANGED <<current, revs, txns, rep_cache,
                 flocks, mutex, registry, proc>>

\* get_and_increment_txn_key_body lines 988-996: write txn_number + 1 to a
\* temporary file and move it into place
WriteTxnCurrent(w) ==
  /\ At(w, "b_write")
  /\ \/ /\ txn_current' = th[w].txn + 1
        /\ hist' = [hist EXCEPT !.minted = Append(@, th[w].txn)]
        /\ Set(w, [pc |-> "destroy"])
     \/ /\ Fail(w, "IO", "destroy")
        /\ UNCHANGED <<txn_current, hist>>
  /\ UNCHANGED <<current, revs, txns, rep_cache,
                 flocks, mutex, registry, proc>>

\* create_txn_dir lines 1021-1031: make the transaction's directory
MakeTxnDir(w) ==
  /\ At(w, "b_mkdir")
  /\ \/ /\ ~txns[th[w].txn].dir
        /\ txns' = [txns EXCEPT ![th[w].txn].dir = TRUE]
        /\ Set(w, [pc |-> "b_files"])
     \/ /\ Fail(w, "IO", "ret")
        /\ UNCHANGED txns
  /\ UNCHANGED <<current, revs, txn_current, rep_cache,
                 flocks, mutex, registry, proc, hist>>

\* variant of CreateTxnFiles: the root node-rev is a plain copy of the
\* base revision's root
CreateTxnFiles_copy(w) ==
  LET t == th[w].txn IN
  /\ At(w, "b_files")
  /\ \/ /\ \E src \in RootNodeRevs(th[w].rev) :
             txns' = [txns EXCEPT
                        ![t] = [FreshTxn(w, th[w].rev, src) EXCEPT
                                  !.noderev = [predecessor_id |-> src.id,
                                               predecessor_count |->
                                                 src.predecessor_count,
                                               copyfrom_rev |->
                                                 src.copyfrom_rev]]]
        /\ Set(w, [pc |-> "ret", rev |-> 0])
     \/ /\ UNCHANGED txns
        /\ Fail(w, "IO", "ret")
  /\ UNCHANGED <<current, revs, txn_current, rep_cache,
                 flocks, mutex, registry, proc, hist>>

\* svn_fs_x__create_txn lines 1057-1079: the txn root node-rev, then the
\* empty rev, rev-lock, changes and next-ids files; a failure leaves the
\* files created before it
CreateTxnFiles(w) ==
  LET t == th[w].txn IN
  /\ At(w, "b_files")
  /\ \/ /\ \E src \in RootNodeRevs(th[w].rev) :
             txns' = [txns EXCEPT ![t] = FreshTxn(w, th[w].rev, src)]
        /\ Set(w, [pc |-> "ret", rev |-> 0])
     \/ /\ \/ UNCHANGED txns
           \/ \E src \in RootNodeRevs(th[w].rev) :
                txns' = [txns EXCEPT
                           ![t].root = TRUE, ![t].base_rev = th[w].rev,
                           ![t].noderev = create_new_txn_noderev_from_rev(src)]
        /\ Fail(w, "IO", "ret")
  /\ UNCHANGED <<current, revs, txn_current, rep_cache,
                 flocks, mutex, registry, proc, hist>>

\* ------------------------------------------------- proto-rev lock (4.1.4)
\* variant of get_writable_proto_rev_body: the lock on the rev-lock file is
\* taken without regard to another holder
get_writable_proto_rev_body_noflock(w) ==
  LET p == proc[w]
      t == th[w].txn
      lst == get_shared_txn(registry[p], t, TRUE)
      failpc == IF th[w].op = "commit" THEN "destroy" ELSE "ret"
  IN
  /\ At(w, "getproto")
  /\ IF being_written(lst, t)
     THEN /\ registry' = [registry EXCEPT ![p] = lst]
          /\ Fail(w, "RepBeingWritten", failpc)
          /\ UNCHANGED <<txns, flocks>>
     ELSE /\ txns' = [txns EXCEPT ![t].lock = TRUE]
          /\ registry' = [registry EXCEPT
                            ![p] = SetBeingWritten(lst, t, TRUE)]
          /\ flocks' = [flocks EXCEPT !.proto[t] = w]
          /\ Set(w, [pc |-> "openproto", lockcookie |-> TRUE])
  /\ UNCHANGED <<current, revs, txn_current, rep_cache,
                 mutex, proc, hist>>

\* get_writable_proto_rev_body, run under the txn-list mutex: fail when a
\* thread of this process is writing; else open the rev-lock file
\* (creating it) and try a non-blocking exclusive lock
get_writable_proto_rev_body(w) ==
  LET p == proc[w]
      t == th[w].txn
      lst == get_shared_txn(registry[p], t, TRUE)
      failpc == IF th[w].op = "commit" THEN "destroy" ELSE "ret"
  IN
  /\ At(w, "getproto")
  /\ IF being_written(lst, t)
     THEN /\ registry' = [registry EXCEPT ![p] = lst]
          /\ Fail(w, "RepBeingWritten", failpc)
          /\ UNCHANGED <<txns, flocks>>
     ELSE /\ txns' = [txns EXCEPT ![t].lock = TRUE]
          /\ IF flocks.proto[t] # 0
             THEN /\ registry' = [registry EXCEPT ![p] = lst]
                  /\ Fail(w, "RepBeingWritten", failpc)
                  /\ UNCHANGED flocks
             ELSE /\ registry' = [registry EXCEPT
                                    ![p] = SetBeingWritten(lst, t, TRUE)]
                  /\ flocks' = [flocks EXCEPT !.proto[t] = w]
                  /\ Set(w, [pc |-> "openproto", lockcookie |-> TRUE])
  /\ UNCHANGED <<current, revs, txn_current, rep_cache,
                 mutex, proc, hist>>

\* get_writable_proto_rev lines 462-489: open the proto-rev file and seek
\* to its end; on failure unlock_proto_rev and drop the cookie.  The
\* caller then reads the file offset (lines 3117, 1850).
get_writable_proto_rev(w) ==
  LET p == proc[w]
      t == th[w].txn
      failpc == IF th[w].op = "commit" THEN "destroy" ELSE "ret"
  IN
  /\ At(w, "openproto")
  /\ \/ /\ ProtoExists(t)
        /\ Set(w, [pc |-> IF th[w].op = "commit" THEN "c_write" ELSE "r_header",
                   offset |-> txns[t].proto])
        /\ UNCHANGED <<registry, flocks>>
     \/ /\ IF unlock_proto_rev_err(registry[p], t) = "OK"
           THEN /\ registry' = [registry EXCEPT
                                  ![p] = SetBeingWritten(@, t, FALSE)]
                /\ flocks' = [flocks EXCEPT !.proto[t] = 0]
           ELSE UNCHANGED <<registry, flocks>>
        /\ Set(w, [pc |-> failpc, err |-> "IO", old_rev |-> 0, new_rev |-> 0,
                   lockcookie |-> unlock_proto_rev_err(registry[p], t) # "OK"])
  /\ UNCHANGED <<diskVars, mutex, proc, hist>>

\* ------------------------------------------------- commit pipeline (4.9)
\* svn_fs_x__commit(txn) is called on an open transaction
StartCommit(w, t) ==
  /\ At(w, "idle")
  /\ HasTxn(w, t)
  /\ current + Cardinality({v \in Workers : Committing(v)}) < MaxRev
  /\ Set(w, [pc |-> "mutex", op |-> "commit", txn |-> t])
  /\ UNCHANGED <<diskVars, flocks, mutex, registry, proc, hist>>

\* variant of CheckOutOfDate: base_rev is not compared with youngest
CheckOutOfDate_nocheck(w) ==
  /\ At(w, "c_youngest")
  /\ \/ Set(w, [pc |-> "c_verify", old_rev |-> current])
     \/ Fail(w, "IO", "destroy")
  /\ UNCHANGED <<diskVars, flocks, mutex, registry, proc, hist>>

\* commit_body lines 3089-3096: read youngest, compare with txn->base_rev
CheckOutOfDate(w) ==
  /\ At(w, "c_youngest")
  /\ \/ IF txns[th[w].txn].base_rev # current
        THEN Fail(w, "TxnOutOfDate", "destroy")
        ELSE Set(w, [pc |-> "c_verify", old_rev |-> current])
     \/ Fail(w, "IO", "destroy")
  /\ UNCHANGED <<diskVars, flocks, mutex, registry, proc, hist>>

\* variant of VerifyLocksAndMoves: new_rev skips a number
VerifyLocksAndMoves_skip(w) ==
  /\ At(w, "c_verify")
  /\ \/ Set(w, [pc |-> "getproto",
                 new_rev |-> IF th[w].old_rev + 2 \in Revs
                             THEN th[w].old_rev + 2 ELSE th[w].old_rev + 1])
     \/ Fail(w, "Verify", "destroy")
  /\ UNCHANGED <<diskVars, flocks, mutex, registry, proc, hist>>

\* commit_body lines 3098-3112: verify_locks, svn_fs_x__txn_changes_fetch,
\* verify_moves (each may reject the commit), then new_rev = old_rev + 1
VerifyLocksAndMoves(w) ==
  /\ At(w, "c_verify")
  /\ \/ Set(w, [pc |-> "getproto", new_rev |-> th[w].old_rev + 1])
     \/ Fail(w, "Verify", "destroy")
  /\ UNCHANGED <<diskVars, flocks, mutex, registry, proc, hist>>

\* commit_body lines 3119-3131: write_final_rev and
\* write_final_changed_path_info append to the proto-rev file, which is
\* then flushed and closed; a failure leaves what was appended before it
WriteFinalRev(w) ==
  LET t == th[w].txn IN
  /\ At(w, "c_write")
  /\ \/ /\ ProtoExists(t) /\ txns[t].proto < MaxProto
        /\ txns' = [txns EXCEPT ![t].proto = @ + 1]
        /\ \/ Set(w, [pc |-> "c_shard", offset |-> 0])
           \/ Fail(w, "IO", "destroy")
     \/ /\ UNCHANGED txns
        /\ Fail(w, "IO", "destroy")
  /\ UNCHANGED <<current, revs, txn_current, rep_cache,
                 flocks, mutex, registry, proc, hist>>

\* commit_body lines 3137-3170: the first revision of a shard creates the
\* revs and revprops shard directories (an existing directory is fine)
CreateShards(w) ==
  /\ At(w, "c_shard")
  /\ \/ Set(w, [pc |-> "c_l2p"])
     \/ /\ th[w].new_rev % max_files_per_dir = 0
        /\ Fail(w, "IO", "destroy")
  /\ UNCHANGED <<diskVars, flocks, mutex, registry, proc, hist>>

\* commit_body lines 3174-3177: svn_fs_x__l2p_index_create at the final path
CreateL2PIndex(w) ==
  /\ At(w, "c_l2p")
  /\ \/ /\ revs' = [revs EXCEPT ![th[w].new_rev].l2p = TRUE]
        /\ Set(w, [pc |-> "c_p2l"])
     \/ /\ Fail(w, "IO", "destroy")
        /\ UNCHANGED revs
  /\ UNCHANGED <<current, txn_current, txns, rep_cache,
                 flocks, mutex, registry, proc, hist>>

\* commit_body lines 3178-3181: svn_fs_x__p2l_index_create at the final path
CreateP2LIndex(w) ==
  /\ At(w, "c_p2l")
  /\ \/ /\ revs' = [revs EXCEPT ![th[w].new_rev].p2l = TRUE]
        /\ Set(w, [pc |-> "c_move"])
     \/ /\ Fail(w, "IO", "destroy")
        /\ UNCHANGED revs
  /\ UNCHANGED <<current, txn_current, txns, rep_cache,
                 flocks, mutex, registry, proc, hist>>

\* variant of MoveRevIntoPlace: `current' is written with the rename
MoveRevIntoPlace_bump(w) ==
  LET t == th[w].txn IN
  /\ At(w, "c_move")
  /\ \/ /\ ProtoExists(t)
        /\ revs' = [revs EXCEPT ![th[w].new_rev].rev = TRUE]
        /\ txns' = [txns EXCEPT ![t].proto = 0 - 1]
        /\ current' = th[w].new_rev
        /\ Set(w, [pc |-> "c_unlock"])
     \/ /\ Fail(w, "IO", "destroy")
        /\ UNCHANGED <<revs, txns, current>>
  /\ UNCHANGED <<txn_current, rep_cache,
                 flocks, mutex, registry, proc, hist>>

\* commit_body lines 3183-3189: rename the proto-rev file to the rev file
MoveRevIntoPlace(w) ==
  LET t == th[w].txn IN
  /\ At(w, "c_move")
  /\ \/ /\ ProtoExists(t)
        /\ revs' = [revs EXCEPT ![th[w].new_rev].rev = TRUE]
        /\ txns' = [txns EXCEPT ![t].proto = 0 - 1]
        /\ Set(w, [pc |-> "c_unlock"])
     \/ /\ Fail(w, "IO", "destroy")
        /\ UNCHANGED <<revs, txns>>
  /\ UNCHANGED <<current, txn_current, rep_cache,
                 flocks, mutex, registry, proc, hist>>

\* commit_body line 3195: unlock_proto_rev
UnlockProtoRev(w) ==
  LET p == proc[w]
      t == th[w].txn
  IN
  /\ At(w, "c_unlock")
  /\ IF unlock_proto_rev_err(registry[p], t) = "OK"
     THEN /\ registry' = [registry EXCEPT ![p] = SetBeingWritten(@, t, FALSE)]
          /\ flocks' = [flocks EXCEPT !.proto[t] = 0]
          /\ Set(w, [pc |-> "c_revprop", lockcookie |-> FALSE])
     ELSE /\ Fail(w, "Corrupt", "destroy")
          /\ UNCHANGED <<registry, flocks>>
  /\ UNCHANGED <<diskVars, mutex, proc, hist>>

\* commit_body lines 3197-3202: write_final_revprop and move it into place
MoveRevpropsIntoPlace(w) ==
  /\ At(w, "c_revprop")
  /\ \/ /\ revs' = [revs EXCEPT ![th[w].new_rev].props = TRUE]
        /\ Set(w, [pc |-> "c_current"])
     \/ /\ Fail(w, "IO", "destroy")
        /\ UNCHANGED revs
  /\ UNCHANGED <<current, txn_current, txns, rep_cache,
                 flocks, mutex, registry, proc, hist>>

\* variant of WriteCurrent: a failing write has replaced `current'
WriteCurrent_torn(w) ==
  /\ At(w, "c_current")
  /\ \/ /\ current' = th[w].new_rev
        /\ hist' = [hist EXCEPT !.assigned =
                      Append(@, [txn |-> th[w].txn,
                                 base |-> txns[th[w].txn].base_rev,
                                 old_rev |-> th[w].old_rev,
                                 youngest |-> current,
                                 new_rev |-> th[w].new_rev])]
        /\ Set(w, [pc |-> "purge", committed |-> TRUE, old_rev |-> 0])
     \/ /\ Fail(w, "IO", "destroy")
        /\ current' = th[w].new_rev
        /\ UNCHANGED hist
  /\ UNCHANGED <<revs, txn_current, txns, rep_cache,
                 flocks, mutex, registry, proc>>

\* commit_body lines 3204-3215: verify the new revision, write `current',
\* set *new_rev_p
WriteCurrent(w) ==
  /\ At(w, "c_current")
  /\ \/ /\ current' = th[w].new_rev
        /\ hist' = [hist EXCEPT !.assigned =
                      Append(@, [txn |-> th[w].txn,
                                 base |-> txns[th[w].txn].base_rev,
                                 old_rev |-> th[w].old_rev,
                                 youngest |-> current,
                                 new_rev |-> th[w].new_rev])]
        /\ Set(w, [pc |-> "purge", committed |-> TRUE, old_rev |-> 0])
     \/ /\ Fail(w, "IO", "destroy")
        /\ UNCHANGED <<current, hist>>
  /\ UNCHANGED <<revs, txn_current, txns, rep_cache,
                 flocks, mutex, registry, proc>>

\* svn_fs_x__commit lines 3275-3290: after the write lock is released, the
\* collected reps are written to the rep-cache
WriteRepsToCache(w) ==
  /\ At(w, "c_repcache")
  /\ \/ /\ rep_cache' = rep_cache \cup {th[w].txn}
        /\ Set(w, [pc |-> "ret"])
     \/ /\ Fail(w, "IO", "ret")
        /\ UNCHANGED rep_cache
  /\ UNCHANGED <<current, revs, txn_current, txns,
                 flocks, mutex, registry, proc, hist>>

\* ------------------------------------------------------- purge (4.3, 4.9)
\* the pc a failed or finished purge continues at: commit_body returns to
\* with_some_lock_file, svn_fs_x__abort_txn returns to its caller
AfterPurge(w) == IF th[w].op = "commit" THEN "destroy" ELSE "ret"

\* svn_fs_x__abort_txn(txn) is called by the owner of an open transaction
\* that no thread is writing to or committing
StartAbort(w, t) ==
  /\ At(w, "idle")
  /\ HasTxn(w, t)
  /\ \A v \in Workers : ~(th[v].op \in {"commit", "rep"} /\ th[v].txn = t)
  /\ Set(w, [pc |-> "purge", op |-> "abort", txn |-> t])
  /\ UNCHANGED <<diskVars, flocks, mutex, registry, proc, hist>>

\* variant of PurgeSharedTxn: the whole list is dropped
PurgeSharedTxn_all(w) ==
  LET p == proc[w] IN
  /\ At(w, "purge")
  /\ registry' = [registry EXCEPT ![p] = <<>>]
  /\ Set(w, [pc |-> "p_dir"])
  /\ UNCHANGED <<diskVars, flocks, mutex, proc, hist>>

\* svn_fs_x__purge_txn line 1442: purge_shared_txn under the txn-list mutex
PurgeSharedTxn(w) ==
  LET p == proc[w] IN
  /\ At(w, "purge")
  /\ registry' = [registry EXCEPT ![p] = free_shared_txn(@, th[w].txn)]
  /\ Set(w, [pc |-> "p_dir"])
  /\ UNCHANGED <<diskVars, flocks, mutex, proc, hist>>

\* svn_fs_x__purge_txn lines 1444-1445: remove the transaction directory
RemoveTxnDir(w) ==
  /\ At(w, "p_dir")
  /\ \/ /\ txns' = [txns EXCEPT ![th[w].txn].dir = FALSE,
                                 ![th[w].txn].root = FALSE,
                                 ![th[w].txn].base_rev = 0,
                                 ![th[w].txn].changes = 0 - 1,
                                 ![th[w].txn].next_ids = <<>>,
                                 ![th[w].txn].item_index = <<>>,
                                 ![th[w].txn].noderev = NoNodeRev]
        /\ Set(w, [pc |-> "p_files"])
     \/ /\ Fail(w, "IO", AfterPurge(w))
        /\ UNCHANGED txns
  /\ UNCHANGED <<current, revs, txn_current, rep_cache,
                 flocks, mutex, registry, proc, hist>>

\* variant of RemoveProtoRevFiles: the rev-lock file is left behind
RemoveProtoRevFiles_keeplock(w) ==
  LET t == th[w].txn IN
  /\ At(w, "p_files")
  /\ \/ /\ txns' = [txns EXCEPT ![t].proto = 0 - 1]
        /\ Set(w, [pc |-> AfterPurge(w)])
     \/ /\ UNCHANGED txns
        /\ Fail(w, "IO", AfterPurge(w))
  /\ UNCHANGED <<current, revs, txn_current, rep_cache,
                 flocks, mutex, registry, proc, hist>>

\* svn_fs_x__open_txn lines 3349-3367: its result for the name of T
open_txn_err(t) ==
  IF ~txns[t].dir THEN "NoSuchTransaction"
  ELSE IF ~txns[t].root THEN "IO"
  ELSE "OK"

\* svn_fs_x__list_transactions: the ids of the *.txn directories
list_transactions == {t \in TxnIds : txns[t].dir}

\* svn_fs_x__purge_txn lines 1451-1458: remove proto-rev file and rev-lock
RemoveProtoRevFiles(w) ==
  LET t == th[w].txn IN
  /\ At(w, "p_files")
  /\ \/ /\ txns' = [txns EXCEPT ![t].proto = 0 - 1, ![t].lock = FALSE]
        /\ Set(w, [pc |-> AfterPurge(w)])
     \/ /\ UNCHANGED txns
        /\ Fail(w, "IO", AfterPurge(w))
  /\ UNCHANGED <<current, revs, txn_current, rep_cache,
                 flocks, mutex, registry, proc, hist>>

\* ------------------------------------------------------- rep writer (4.5)
\* svn_fs_x__set_contents(noderev) is called for a file of an open txn
StartRep(w, t) ==
  /\ At(w, "idle")
  /\ HasTxn(w, t)
  /\ Set(w, [pc |-> "getproto", op |-> "rep", txn |-> t])
  /\ UNCHANGED <<diskVars, flocks, mutex, registry, proc, hist>>

\* rep_write_get_baton lines 1850-1875: choose the delta base, write the
\* rep header, then register rep_write_cleanup; a failure before that
\* returns with the lock still owned by b->pool
rep_write_get_baton(w) ==
  LET t == th[w].txn IN
  /\ At(w, "r_header")
  /\ \/ /\ ProtoExists(t) /\ txns[t].proto < MaxProto
        /\ txns' = [txns EXCEPT ![t].proto = @ + 1]
        /\ \/ Set(w, [pc |-> "r_open", cleanup |-> TRUE])
           \/ Fail(w, "IO", "ret")
     \/ /\ UNCHANGED txns
        /\ Fail(w, "IO", "ret")
  /\ UNCHANGED <<current, revs, txn_current, rep_cache,
                 flocks, mutex, registry, proc, hist>>

\* rep_write_contents: append delta data to the proto-rev file
rep_write_contents(w) ==
  LET t == th[w].txn IN
  /\ At(w, "r_open")
  /\ \/ /\ ProtoExists(t) /\ txns[t].proto < MaxProto
        /\ txns' = [txns EXCEPT ![t].proto = @ + 1]
        /\ UNCHANGED th
     \/ /\ UNCHANGED txns
        /\ Fail(w, "IO", "ret")
  /\ UNCHANGED <<current, revs, txn_current, rep_cache,
                 flocks, mutex, registry, proc, hist>>

\* rep_write_contents_close lines 2029-2071: on a rep-sharing hit truncate
\* to rep_offset, else append ENDREP and allocate an item index; then
\* remove the cleanup handler
rep_write_contents_close(w) ==
  LET t == th[w].txn IN
  /\ At(w, "r_open")
  /\ \/ /\ ProtoExists(t)
        /\ \/ txns' = [txns EXCEPT ![t].proto = th[w].offset]
           \/ /\ txns[t].proto < MaxProto
              /\ txns' = [txns EXCEPT ![t].proto = @ + 1]
        /\ \/ Set(w, [pc |-> "r_close", cleanup |-> FALSE])
           \/ Fail(w, "IO", "ret")
     \/ /\ UNCHANGED txns
        /\ Fail(w, "IO", "ret")
  /\ UNCHANGED <<current, revs, txn_current, rep_cache,
                 flocks, mutex, registry, proc, hist>>

\* rep_write_contents_close lines 2073-2098: write the node-rev and the
\* p2l entry, close the file, unlock_proto_rev, destroy b->pool
rep_write_contents_close_tail(w) ==
  LET p == proc[w]
      t == th[w].txn
  IN
  /\ At(w, "r_close")
  /\ \/ IF unlock_proto_rev_err(registry[p], t) = "OK"
        THEN /\ registry' = [registry EXCEPT
                               ![p] = SetBeingWritten(@, t, FALSE)]
             /\ flocks' = [flocks EXCEPT !.proto[t] = 0]
             /\ Set(w, [pc |-> "ret", lockcookie |-> FALSE])
        ELSE /\ Fail(w, "Corrupt", "ret")
             /\ UNCHANGED <<registry, flocks>>
     \/ /\ Fail(w, "IO", "ret")
        /\ UNCHANGED <<registry, flocks>>
  /\ UNCHANGED <<diskVars, mutex, proc, hist>>

\* the thread that has a rep write stream open on its transaction calls
\* svn_fs_x__set_contents for another file of it: get_writable_proto_rev_body
\* line 378 finds being_written set and returns SVN_ERR_FS_REP_BEING_WRITTEN
\* to that call (err holds the result of the thread's latest call); when
\* the flag is not set the lock file is locked by this thread's own open
\* handle and line 409 fails with EAGAIN; "SecondWriter" stands for a call
\* that found neither and would have become a second writer
NestedWrite(w) ==
  LET p == proc[w]
      t == th[w].txn
      lst == get_shared_txn(registry[p], t, TRUE)
  IN
  /\ At(w, "r_open")
  /\ th[w].err = "OK"
  /\ registry' = [registry EXCEPT ![p] = lst]
  /\ Set(w, [err |-> IF being_written(lst, t) \/ flocks.proto[t] # 0
                     THEN "RepBeingWritten" ELSE "SecondWriter"])
  /\ UNCHANGED <<diskVars, flocks, mutex, proc, hist>>

\* -------------------------------------------------------- pools and crash
\* svn_io_file_trunc on the proto-rev file F of a transaction: its size
\* becomes OFFSET, and so does its content where the content is modelled
svn_io_file_trunc(f, offset) ==
  IF "protorev" \in DOMAIN f
  THEN [f EXCEPT !.proto = offset, !.protorev = SubSeq(@, 1, offset)]
  ELSE [f EXCEPT !.proto = offset]

\* the caller clears the pool it passed in, after the call has returned or
\* to abandon an open rep write stream: a registered rep_write_cleanup
\* runs (truncate to rep_offset, close, unlock_proto_rev), open files are
\* closed and file locks owned by the pool are released
ClearPool(w) ==
  LET p == proc[w]
      t == th[w].txn
      unlock == th[w].cleanup /\ unlock_proto_rev_err(registry[p], t) = "OK"
  IN
  /\ th[w].pc \in {"ret", "r_open"}
  /\ registry' = [registry EXCEPT
                    ![p] = IF unlock THEN SetBeingWritten(@, t, FALSE) ELSE @]
  /\ txns' = [txns EXCEPT ![t] =
                 IF th[w].cleanup /\ ProtoExists(t)
                 THEN svn_io_file_trunc(@, th[w].offset) ELSE @]
  /\ flocks' = ReleasedFlocks(w, th[w].pool, th[w].lockcookie)
  /\ th' = [th EXCEPT ![w] = Idle @@ @]
  /\ UNCHANGED <<current, revs, txn_current, rep_cache,
                 mutex, proc, hist>>

\* process P dies and is started again: its threads, mutexes and shared
\* data are gone, the operating system releases its file locks, the files
\* stay as they are
Crash(p) ==
  /\ \E w \in Workers : proc[w] = p /\ ~At(w, "idle")
  /\ th' = [w \in Workers |-> IF proc[w] = p THEN Idle ELSE th[w]]
  /\ mutex' = [mutex EXCEPT ![p] = [write |-> 0, txncur |-> 0]]
  /\ registry' = [registry EXCEPT ![p] = <<>>]
  /\ flocks' =
       [write |-> IF flocks.write # 0 /\ proc[flocks.write] = p
                  THEN 0 ELSE flocks.write,
        txncur |-> IF flocks.txncur # 0 /\ proc[flocks.txncur] = p
                   THEN 0 ELSE flocks.txncur,
        proto |-> [t \in TxnIds |->
                     IF flocks.proto[t] # 0 /\ proc[flocks.proto[t]] = p
                     THEN 0 ELSE flocks.proto[t]]]
  /\ UNCHANGED <<diskVars, proc, hist>>

\* ---------------------------------------------------- id reservation (4.3)
\* the digits of svn__ui64tobase36 / svn__base36toui64, by value
Base36Digits ==
  <<"0", "1", "2", "3", "4", "5", "6", "7", "8", "9", "a", "b", "c", "d",
    "e", "f", "g", "h", "i", "j", "k", "l", "m", "n", "o", "p", "q", "r",
    "s", "t", "u", "v", "w", "x", "y", "z">>

IsDigit(c, radix) == \E i \in 1..radix : Base36Digits[i] = c

DigitValue(c) == (CHOOSE i \in 1..36 : Base36Digits[i] = c) - 1

\* the number N written in RADIX, most significant digit first
RECURSIVE ToDigits(_, _)
ToDigits(n, radix) ==
  IF n < radix THEN <<Base36Digits[n + 1]>>
  ELSE ToDigits(n \div radix, radix) \o <<Base36Digits[(n % radix) + 1]>>

\* the digits of BUF from position POS on are consumed: the value read so
\* far and the position of the first character that is not a digit
RECURSIVE ScanDigits(_, _, _, _)
ScanDigits(buf, pos, radix, acc) ==
  IF pos <= Len(buf) /\ IsDigit(buf[pos], radix)
  THEN ScanDigits(buf, pos + 1, radix, acc * radix + DigitValue(buf[pos]))
  ELSE [value |-> acc, next |-> pos]

svn__ui64tobase36(n) == ToDigits(n, 36)
svn__base36toui64(buf, pos) == ScanDigits(buf, pos, 36, 0)
svn__ui64toa(n) == ToDigits(n, 10)

\* svn_cstring_atoui64: the whole string must be a decimal number
svn_cstring_atoui64(buf) ==
  LET r == ScanDigits(buf, 1, 10, 0) IN
  IF buf = <<>> \/ r.next <= Len(buf)
  THEN [err |-> "BadNumber", value |-> 0]
  ELSE [err |-> "OK", value |-> r.value]

\* SVN_FS_X__ITEM_INDEX_FIRST_USER
SVN_FS_X__ITEM_INDEX_FIRST_USER == 3

\* the NUL character
NUL == "NUL"

\* write_next_ids lines 1313-1317: the content it writes, the NUL that
\* ends the string included
next_ids_content(node_id, copy_id) ==
  svn__ui64tobase36(node_id) \o <<" ">> \o svn__ui64tobase36(copy_id)
    \o <<"\n", NUL>>

\* variant of read_next_ids: what follows the second number is not looked
\* at
read_next_ids_lax(buf) ==
  LET a == svn__base36toui64(buf, 1)
      b == svn__base36toui64(buf, a.next + 1)
  IN IF a.next > Len(buf) \/ buf[a.next] # " "
     THEN [err |-> "Corrupt", node_id |-> 0, copy_id |-> 0]
     ELSE [err |-> "OK", node_id |-> a.value, copy_id |-> b.value]

\* read_next_ids lines 1347-1357 on the file content BUF (the character
\* after the end of the content is the terminating NUL)
read_next_ids(buf) ==
  LET a == svn__base36toui64(buf, 1)
      b == svn__base36toui64(buf, a.next + 1)
  IN IF a.next > Len(buf) \/ buf[a.next] # " "
     THEN [err |-> "Corrupt", node_id |-> 0, copy_id |-> 0]
     ELSE IF b.next > Len(buf) \/ buf[b.next] # "\n"
     THEN [err |-> "Corrupt", node_id |-> a.value, copy_id |-> 0]
     ELSE [err |-> "OK", node_id |-> a.value, copy_id |-> b.value]

\* write_next_ids lines 1319-1325: the file is opened with APR_TRUNCATE
\* and written; a failing write leaves the start of the content, or nothing
write_next_ids(t, node_id, copy_id) ==
  \E k \in 0..Len(next_ids_content(node_id, copy_id)) :
    txns' = [txns EXCEPT ![t].next_ids =
               SubSeq(next_ids_content(node_id, copy_id), 1, k)]

\* the reservation has stored its new counter (the write did not fail)
Reserved(t, field, content) == txns'[t][field] = content

\* variant of get_new_txn_node_id: the counter is written back as read
get_new_txn_node_id_same(w, t) ==
  LET ids == read_next_ids(txns[t].next_ids)
      stored == Reserved(t, "next_ids", next_ids_content(ids.node_id, ids.copy_id))
  IN
  /\ At(w, "idle") /\ HasTxn(w, t)
  /\ ids.err = "OK" => ids.node_id < hist.ids0 + MaxReserve
  /\ IF ids.err # "OK"
     THEN /\ UNCHANGED <<txns, hist>>
          /\ Set(w, [err |-> ids.err])
     ELSE /\ write_next_ids(t, ids.node_id, ids.copy_id)
          /\ hist' = IF stored
                     THEN [hist EXCEPT !.node_ids[t] = Append(@, ids.node_id)]
                     ELSE hist
          /\ Set(w, [err |-> IF stored THEN "OK" ELSE "IO"])
  /\ UNCHANGED <<current, revs, txn_current, rep_cache,
                 flocks, mutex, registry, proc>>

\* get_new_txn_node_id: read next-ids, return node_id, write node_id + 1;
\* the call fails when the read or the write fails
get_new_txn_node_id(w, t) ==
  LET ids == read_next_ids(txns[t].next_ids)
      stored == Reserved(t, "next_ids", next_ids_content(ids.node_id + 1, ids.copy_id))
  IN
  /\ At(w, "idle") /\ HasTxn(w, t)
  /\ ids.err = "OK" => ids.node_id < hist.ids0 + MaxReserve
  /\ IF ids.err # "OK"
     THEN /\ UNCHANGED <<txns, hist>>
          /\ Set(w, [err |-> ids.err])
     ELSE /\ write_next_ids(t, ids.node_id + 1, ids.copy_id)
          /\ hist' = IF stored
                     THEN [hist EXCEPT !.node_ids[t] = Append(@, ids.node_id)]
                     ELSE hist
          /\ Set(w, [err |-> IF stored THEN "OK" ELSE "IO"])
  /\ UNCHANGED <<current, revs, txn_current, rep_cache,
                 flocks, mutex, registry, proc>>

\* svn_fs_x__reserve_copy_id: read next-ids, return copy_id, write
\* copy_id + 1
svn_fs_x__reserve_copy_id(w, t) ==
  LET ids == read_next_ids(txns[t].next_ids)
      stored == Reserved(t, "next_ids", next_ids_content(ids.node_id, ids.copy_id + 1))
  IN
  /\ At(w, "idle") /\ HasTxn(w, t)
  /\ ids.err = "OK" => ids.copy_id < hist.ids0 + MaxReserve
  /\ IF ids.err # "OK"
     THEN /\ UNCHANGED <<txns, hist>>
          /\ Set(w, [err |-> ids.err])
     ELSE /\ write_next_ids(t, ids.node_id, ids.copy_id + 1)
          /\ hist' = IF stored
                     THEN [hist EXCEPT !.copy_ids[t] = Append(@, ids.copy_id)]
                     ELSE hist
          /\ Set(w, [err |-> IF stored THEN "OK" ELSE "IO"])
  /\ UNCHANGED <<current, revs, txn_current, rep_cache,
                 flocks, mutex, registry, proc>>

\* allocate_item_index lines 1282-1285: an empty item-index file gives
\* SVN_FS_X__ITEM_INDEX_FIRST_USER, else the decimal number in it
item_index_read(buf) ==
  IF buf = <<>> THEN SVN_FS_X__ITEM_INDEX_FIRST_USER
  ELSE svn_cstring_atoui64(buf).value

\* allocate_item_index lines 1287-1293: the number + 1 is written over the
\* start of the file, which is not truncated
item_index_written(buf) ==
  LET out == svn__ui64toa(item_index_read(buf) + 1) IN
  out \o SubSeq(buf, Len(out) + 1, Len(buf))

\* allocate_item_index, called for transaction T
allocate_item_index(w, t) ==
  LET buf == txns[t].item_index IN
  /\ At(w, "idle") /\ HasTxn(w, t)
  /\ Len(hist.item_indexes[t]) < MaxReserve
  /\ buf = <<>> \/ svn_cstring_atoui64(buf).err = "OK"
  /\ txns' = [txns EXCEPT ![t].item_index = item_index_written(buf)]
  /\ hist' = [hist EXCEPT !.item_indexes[t] = Append(@, item_index_read(buf))]
  /\ UNCHANGED <<current, revs, txn_current, rep_cache,
                 flocks, mutex, registry, th, proc>>

\* svn_fs_x__create_txn is called; the txn-current file is text
StartBeginFile(w, rev) ==
  /\ At(w, "idle")
  /\ rev <= current
  /\ Set(w, [pc |-> "mutex", op |-> "begin", rev |-> rev])
  /\ UNCHANGED <<diskVars, flocks, mutex, registry, proc, hist>>

\* get_and_increment_txn_key_body lines 981-984: the content of
\* txn-current is read and its leading base-36 number is taken; what
\* follows the number is not looked at
ReadTxnCurrentFile(w) ==
  /\ At(w, "b_read")
  /\ \/ Set(w, [pc |-> "b_write",
                txn |-> svn__base36toui64(txn_current, 1).value])
     \/ Fail(w, "IO", "destroy")
  /\ UNCHANGED <<diskVars, flocks, mutex, registry, proc, hist>>

\* get_and_increment_txn_key_body lines 986-994: the digits of
\* txn_number + 1, svn__ui64tobase36(new_id_str, ...) bytes of them, are
\* written to a temporary file that is moved into place; no newline is
\* added to them
WriteTxnCurrentFile(w) ==
  /\ At(w, "b_write")
  /\ \/ /\ txn_current' = svn__ui64tobase36(th[w].txn + 1)
        /\ hist' = [hist EXCEPT !.minted = Append(@, th[w].txn)]
        /\ Set(w, [pc |-> "destroy"])
     \/ /\ Fail(w, "IO", "destroy")
        /\ UNCHANGED <<txn_current, hist>>
  /\ UNCHANGED <<current, revs, txns, rep_cache,
                 flocks, mutex, registry, proc>>

\* ------------------------------------------------- rep sharing (4.5, 4.8)
\* The node-revs of a transaction: 1 and 2 are the children of the root
\* directory 3; write_final_rev visits the children before their parent.
Nodes == <<1, 2, 3>>

\* file contents and serialized hashes (property lists, directory entries)
Contents == {"x", "y"}

\* digests_final: the SHA-1 of the expanded content
sha1_digest(c) == <<"sha1", c>>

\* svn_fs_x__is_txn / svn_fs_x__is_revision on a change set
is_txn(change_set) == change_set[1] = "txn"

\* a NULL representation_t pointer
NoRep == [change_set |-> <<"none", 0>>, number |-> 0, sha1 |-> <<>>]

\* a transaction node-rev without representations
TxnNodeRev(kind) ==
  [kind |-> kind, data_rep |-> NoRep, prop_rep |-> NoRep,
   entries |-> "none", props |-> "none"]

\* the representation-level files of a transaction: the reps of the
\* proto-rev file in file order, the SHA-1 sidecar files, the node-revs
RepFiles(k1, k2) ==
  [protorev |-> <<>>, sha1s |-> {},
   noderevs |-> [n \in {1, 2, 3} |->
                   TxnNodeRev(IF n = 1 THEN k1 ELSE IF n = 2 THEN k2
                              ELSE "dir")]]

\* variant of get_shared_rep: the SHA-1 files of the transaction are not
\* consulted
get_shared_rep_nosidecar(t, rep, reps_hash) ==
  LET in_hash == {r \in reps_hash : r.sha1 = rep.sha1}
      in_db == {r \in rep_cache : r.sha1 = rep.sha1}
  IN IF ~rep_sharing_allowed THEN NoRep
     ELSE IF in_hash # {} THEN CHOOSE r \in in_hash : TRUE
     ELSE IF in_db # {} THEN CHOOSE r \in in_db : TRUE
     ELSE NoRep

\* get_shared_rep lines 1913-1981: REPS_HASH first (the empty set for
\* NULL), then the rep-cache db, then, for a rep that still carries the
\* transaction's change set, the SHA-1 file of the transaction
get_shared_rep(t, rep, reps_hash) ==
  LET in_hash == {r \in reps_hash : r.sha1 = rep.sha1}
      in_db == {r \in rep_cache : r.sha1 = rep.sha1}
      in_txn == IF is_txn(rep.change_set)
                THEN {r \in txns[t].sha1s : r.sha1 = rep.sha1}
                ELSE {}
  IN IF ~rep_sharing_allowed THEN NoRep
     ELSE IF in_hash # {} THEN CHOOSE r \in in_hash : TRUE
     ELSE IF in_db # {} THEN CHOOSE r \in in_db : TRUE
     ELSE IF in_txn # {} THEN CHOOSE r \in in_txn : TRUE
     ELSE NoRep

\* set_representation .. rep_write_contents_close lines 2029-2098 for the
\* file node N: the content C has been appended to the proto-rev file; on
\* a hit of get_shared_rep the file is truncated to rep_offset and the
\* node-rev takes the old rep, else the rep gets an item index, stays in
\* the file and its SHA-1 file is written (store_sha1_rep_mapping)
set_representation(w, t, n, c) ==
  LET f == txns[t]
      rep == [change_set |-> <<"txn", t>>, number |-> 0,
              sha1 |-> sha1_digest(c)]
      old_rep == get_shared_rep(t, rep, {})
      new_rep == [rep EXCEPT !.number = item_index_read(f.item_index)]
  IN
  /\ At(w, "idle") /\ HasTxn(w, t)
  /\ f.noderevs[n].kind = "file"
  /\ f.noderevs[n].data_rep = NoRep
  /\ txns' = IF old_rep # NoRep
             THEN [txns EXCEPT ![t].noderevs[n].data_rep = old_rep]
             ELSE [txns EXCEPT
                     ![t].protorev = Append(@, [type |-> "file_rep",
                                                number |-> new_rep.number,
                                                sha1 |-> rep.sha1]),
                     ![t].item_index = item_index_written(@),
                     ![t].sha1s = @ \cup {new_rep},
                     ![t].noderevs[n].data_rep = new_rep]
  /\ UNCHANGED <<current, revs, txn_current, rep_cache,
                 flocks, mutex, registry, th, proc, hist>>

\* svn_fs_x__set_proplist: the property list P is dumped to the mutable
\* property file of node N, whose prop rep becomes mutable
svn_fs_x__set_proplist(w, t, n, p) ==
  LET f == txns[t] IN
  /\ At(w, "idle") /\ HasTxn(w, t)
  /\ f.noderevs[n].props = "none"
  /\ txns' = [txns EXCEPT
                ![t].noderevs[n].props = p,
                ![t].noderevs[n].prop_rep =
                   [change_set |-> <<"txn", t>>,
                    number |-> item_index_read(f.item_index),
                    sha1 |-> <<>>],
                ![t].item_index = item_index_written(@)]
  /\ UNCHANGED <<current, revs, txn_current, rep_cache,
                 flocks, mutex, registry, th, proc, hist>>

\* svn_fs_x__set_entry lines 1493-1517 on the directory node N: its data
\* rep becomes mutable; E stands for the serialized entry list the
\* directory has when the transaction is committed
svn_fs_x__set_entry(w, t, n, e) ==
  LET f == txns[t] IN
  /\ At(w, "idle") /\ HasTxn(w, t)
  /\ f.noderevs[n].kind = "dir"
  /\ f.noderevs[n].entries = "none"
  /\ txns' = [txns EXCEPT
                ![t].noderevs[n].entries = e,
                ![t].noderevs[n].data_rep =
                   [change_set |-> <<"txn", t>>, number |-> 0,
                    sha1 |-> <<>>]]
  /\ UNCHANGED <<current, revs, txn_current, rep_cache,
                 flocks, mutex, registry, th, proc, hist>>

\* write_hash_delta_rep lines 2313-2366 on the proto-rev file and item
\* index S: the serialized hash C has been appended; on a hit of
\* get_shared_rep the file is truncated and REP becomes a copy of the old
\* rep, else the rep gets an item index and stays in the file
write_hash_delta_rep(t, s, rep, c, reps_hash, item_type) ==
  LET r == [rep EXCEPT !.sha1 = sha1_digest(c)]
      old_rep == get_shared_rep(t, r, reps_hash)
      number == item_index_read(s.item_index)
  IN IF old_rep # NoRep
     THEN [rep |-> old_rep, protorev |-> s.protorev,
           item_index |-> s.item_index]
     ELSE [rep |-> [r EXCEPT !.number = number],
           protorev |-> Append(s.protorev, [type |-> item_type,
                                            number |-> number,
                                            sha1 |-> r.sha1]),
           item_index |-> item_index_written(s.item_index)]

\* commit_body line 3119: write_final_rev is called for the root of the
\* transaction, with an empty REPS_HASH and REPS_TO_CACHE
StartWriteFinalRev(w, t) ==
  /\ At(w, "idle") /\ HasTxn(w, t)
  /\ Set(w, [pc |-> "wfr", op |-> "final", txn |-> t,
             new_rev |-> current + 1, walk |-> 1,
             reps_hash |-> {}, reps_to_cache |-> <<>>])
  /\ UNCHANGED <<diskVars, flocks, mutex, registry, proc, hist>>

\* write_final_rev lines 2530-2617 for the next node of the walk: a
\* mutable directory rep is written with write_hash_delta_rep and no
\* REPS_HASH, a mutable file rep gets the revision's change set, a
\* mutable prop rep is written with REPS_HASH; new file and prop reps go
\* to REPS_TO_CACHE, new prop reps also to REPS_HASH
write_final_rev(w) ==
  LET t == th[w].txn
      n == Nodes[th[w].walk]
      rev == th[w].new_rev
      change_set == <<"rev", rev>>
      nr == txns[t].noderevs[n]
      s0 == [protorev |-> txns[t].protorev,
             item_index |-> txns[t].item_index]
      d == IF nr.kind = "dir" /\ is_txn(nr.data_rep.change_set)
           THEN write_hash_delta_rep(
                  t, s0, [nr.data_rep EXCEPT !.change_set = change_set],
                  nr.entries, {}, "dir_rep")
           ELSE [rep |-> IF is_txn(nr.data_rep.change_set)
                         THEN [nr.data_rep EXCEPT !.change_set = change_set]
                         ELSE nr.data_rep,
                 protorev |-> s0.protorev, item_index |-> s0.item_index]
      p == IF is_txn(nr.prop_rep.change_set)
           THEN write_hash_delta_rep(
                  t, d, [nr.prop_rep EXCEPT !.change_set = change_set],
                  nr.props, th[w].reps_hash,
                  IF nr.kind = "dir" THEN "dir_props" ELSE "file_props")
           ELSE [rep |-> nr.prop_rep,
                 protorev |-> d.protorev, item_index |-> d.item_index]
      data_new == /\ rep_sharing_allowed /\ nr.kind = "file"
                  /\ d.rep.change_set = change_set
      prop_new == rep_sharing_allowed /\ p.rep.change_set = change_set
  IN
  /\ At(w, "wfr")
  /\ txns' = [txns EXCEPT
                ![t].protorev = p.protorev,
                ![t].item_index = p.item_index,
                ![t].noderevs[n].data_rep = d.rep,
                ![t].noderevs[n].prop_rep = p.rep]
  /\ Set(w, [pc |-> IF th[w].walk = Len(Nodes) THEN "wfr_done" ELSE "wfr",
             walk |-> th[w].walk + 1,
             reps_hash |-> th[w].reps_hash
                             \cup (IF prop_new THEN {p.rep} ELSE {}),
             reps_to_cache |-> th[w].reps_to_cache
                                 \o (IF data_new THEN <<d.rep>> ELSE <<>>)
                                 \o (IF prop_new THEN <<p.rep>> ELSE <<>>)])
  /\ UNCHANGED <<current, revs, txn_current, rep_cache,
                 flocks, mutex, registry, proc, hist>>

\* ------------------------------------------------ delta base chooser (4.6)
\* The history of one file: its node-rev of revision R has predecessor
\* count R and the node-rev of R - 1 as predecessor.  A data rep is
\* [revision, base_revision]: the revision whose file holds it and the
\* base_revision of its rep header (-1 for a self-delta).
NoBase == [revision |-> 0 - 1, base_revision |-> 0 - 1]

\* the rightmost '1' bit of COUNT (COUNT >= 1)
RECURSIVE RightmostBit(_)
RightmostBit(count) ==
  IF count % 2 = 1 THEN 1 ELSE 2 * RightmostBit(count \div 2)

\* svn_fs_x__rep_chain_length: the reps on the delta chain of REP, REP
\* included, in the revisions FILES
RECURSIVE svn_fs_x__rep_chain_length(_, _)
svn_fs_x__rep_chain_length(files, r) ==
  IF r.base_revision < 0 THEN 1
  ELSE 1 + svn_fs_x__rep_chain_length(
             files, files[r.base_revision].noderev.data_rep)

\* variant of DeltaWalk: the history is linear also where the skip
\* distance equals max_linear_deltification
DeltaWalk_linear(ffd, predecessor_count) ==
  LET skip == predecessor_count - RightmostBit(predecessor_count)
      walk == predecessor_count - skip
      count == IF walk <= ffd.max_linear_deltification
               THEN predecessor_count - 1 ELSE skip
  IN [walk |-> walk, count |-> count,
      loaded |-> count..(predecessor_count - 1)]

\* choose_delta_base lines 1706-1753 (PROPS = FALSE) for a node-rev with
\* PREDECESSOR_COUNT predecessors: the index of the base and the node-revs
\* the walk loads
DeltaWalk(ffd, predecessor_count) ==
  LET skip == predecessor_count - RightmostBit(predecessor_count)
      walk == predecessor_count - skip
      count == IF walk < ffd.max_linear_deltification
               THEN predecessor_count - 1 ELSE skip
  IN [walk |-> walk, count |-> count,
      loaded |-> count..(predecessor_count - 1)]

\* variant of choose_delta_base: the chain length of the candidate is not
\* measured
choose_delta_base_unchecked(ffd, files, predecessor_count) ==
  LET w == DeltaWalk(ffd, IF predecessor_count = 0 THEN 1
                          ELSE predecessor_count)
      maybe_shared_rep ==
        \E i \in w.loaded : i > files[i].noderev.data_rep.revision
      candidate == files[w.count].noderev.data_rep
  IN IF predecessor_count = 0 \/ w.walk > ffd.max_deltification_walk
     THEN [rep |-> NoBase, candidate |-> NoBase, maybe_shared_rep |-> FALSE]
     ELSE [rep |-> candidate, candidate |-> candidate,
           maybe_shared_rep |-> maybe_shared_rep]

\* choose_delta_base lines 1693-1776: none without predecessors or when
\* the skip distance exceeds max_deltification_walk; else the data rep of
\* the node-rev at index count, unless a rep of an older revision was
\* seen on the walk and the chain of the candidate has
\* 2 * max_linear_deltification + 2 reps or more
choose_delta_base(ffd, files, predecessor_count) ==
  LET w == DeltaWalk(ffd, IF predecessor_count = 0 THEN 1
                          ELSE predecessor_count)
      maybe_shared_rep ==
        \E i \in w.loaded : i > files[i].noderev.data_rep.revision
      candidate == files[w.count].noderev.data_rep
  IN IF predecessor_count = 0 \/ w.walk > ffd.max_deltification_walk
     THEN [rep |-> NoBase, candidate |-> NoBase, maybe_shared_rep |-> FALSE]
     ELSE IF /\ maybe_shared_rep
             /\ svn_fs_x__rep_chain_length(files, candidate)
                  >= 2 * ffd.max_linear_deltification + 2
     THEN [rep |-> NoBase, candidate |-> candidate,
           maybe_shared_rep |-> TRUE]
     ELSE [rep |-> candidate, candidate |-> candidate,
           maybe_shared_rep |-> maybe_shared_rep]

\* the revision file of a commit that changed the file
FileRev(predecessor_count, data_rep) ==
  [noderev |-> [predecessor_count |-> predecessor_count,
                data_rep |-> data_rep]] @@ BaseRev

\* the node-revs of the history that reference a rep of an older revision
SharedRevs ==
  {r \in 0..current : revs[r].noderev.data_rep.revision < r}

\* one more commit changes the file: rep_write_get_baton line 1853 asks
\* choose_delta_base for the base of the new content; on close the rep is
\* kept, or (SHARED >= 0) dropped for the equal rep of revision SHARED;
\* the model lets this happen to one node-rev of the history
CommitFileChange(w, shared) ==
  LET new_rev == current + 1
      base == choose_delta_base(th[w], revs, new_rev)
      written == [revision |-> new_rev,
                  base_revision |-> base.rep.revision]
  IN
  /\ At(w, "idle") /\ th[w].max_linear_deltification > 0
  /\ new_rev <= MaxHistory
  /\ shared >= 0 => shared \notin SharedRevs /\ SharedRevs = {}
  /\ current' = new_rev
  /\ revs' = [revs EXCEPT ![new_rev] =
                FileRev(new_rev, IF shared >= 0
                                 THEN revs[shared].noderev.data_rep
                                 ELSE written)]
  /\ hist' = [hist EXCEPT !.chosen = base]
  /\ UNCHANGED <<txn_current, txns, rep_cache,
                 flocks, mutex, registry, th, proc>>

\* ------------------------------------------- change folder (4.7), moves (4.10)
\* paths are strings: /a, its child /a/b and its sibling /ab
PathA == <<"/", "a">>
PathAB == <<"/", "a", "/", "b">>
PathAX == <<"/", "a", "b">>
Paths == {PathA, PathAB, PathAX}

\* the order of the characters
CharRank(c) == CHOOSE i \in 1..3 : <<"/", "a", "b">>[i] = c

\* svn_sort_compare_items_lexically / svn_sort_compare_paths: P sorts
\* before Q
RECURSIVE PathLess(_, _)
PathLess(p, q) ==
  IF q = <<>> THEN FALSE
  ELSE IF p = <<>> THEN TRUE
  ELSE IF Head(p) # Head(q) THEN CharRank(Head(p)) < CharRank(Head(q))
  ELSE PathLess(Tail(p), Tail(q))

\* the paths of the set S in sorted order
RECURSIVE SortPaths(_)
SortPaths(S) ==
  IF S = {} THEN <<>>
  ELSE LET first == CHOOSE p \in S : \A q \in S \ {p} : PathLess(p, q)
       IN <<first>> \o SortPaths(S \ {first})

\* svn_dirent_is_child: CHILD lies strictly below PARENT
svn_dirent_is_child(parent, child) ==
  /\ Len(child) > Len(parent) + 1
  /\ SubSeq(child, 1, Len(parent)) = parent
  /\ child[Len(parent) + 1] = "/"

\* svn_dirent_is_ancestor: PATH is ANCESTOR or lies below it
svn_dirent_is_ancestor(ancestor, path) ==
  ancestor = path \/ svn_dirent_is_child(ancestor, path)

\* no entry of the changes hash / a NULL copyfrom_path
NoChange == [change_kind |-> "none"]
NoPath == <<>>
EmptyChanges == [p \in Paths |-> NoChange]

MoveKinds == {"move", "movereplace"}
DeletionKinds == {"delete", "replace", "movereplace"}

\* the copy sources the model uses for a change of PATH
Source(path, k) ==
  IF k = 0 THEN NoPath
  ELSE IF path = PathA THEN (IF k = 1 THEN PathAX ELSE PathAB)
  ELSE IF path = PathAB THEN (IF k = 1 THEN PathAX ELSE PathA)
  ELSE (IF k = 1 THEN PathAB ELSE PathA)

\* svn_fs_x__add_change lines 1595-1600: the change record of its
\* arguments; node-rev id 0 is NULL, id 1 is a file and id 2 a directory;
\* a copy or move comes with its source path in revision 0
MakeChange(path, shape) ==
  [path |-> path, change_kind |-> shape[1], node_rev_id |-> shape[2],
   node_kind |-> IF shape[2] = 2 THEN "dir" ELSE "file",
   text_mod |-> shape[3], prop_mod |-> shape[4],
   copyfrom_path |-> Source(path, shape[5]),
   copyfrom_rev |-> IF shape[5] # 0 THEN 0 ELSE 0 - 1]

\* the arguments svn_fs_x__add_change is called with: <<change_kind,
\* node-rev id, text_mod, prop_mod, copy source>>
ChangeShapes ==
  {<<"reset", 0, FALSE, FALSE, 0>>,
   <<"modify", 1, TRUE, FALSE, 0>>, <<"modify", 1, FALSE, TRUE, 0>>,
   <<"modify", 0, TRUE, FALSE, 0>>, <<"modify", 2, TRUE, FALSE, 0>>,
   <<"delete", 1, FALSE, FALSE, 0>>, <<"delete", 2, FALSE, FALSE, 0>>,
   <<"add", 1, TRUE, FALSE, 0>>, <<"add", 2, FALSE, FALSE, 1>>,
   <<"replace", 2, TRUE, TRUE, 0>>,
   <<"move", 1, FALSE, FALSE, 1>>, <<"move", 2, FALSE, FALSE, 2>>,
   <<"movereplace", 2, FALSE, FALSE, 1>>}

\* the public change record made of the change record C (lines 778-781)
ChangeInfo(c) ==
  [change_kind |-> c.change_kind, node_rev_id |-> c.node_rev_id,
   node_kind |-> c.node_kind, text_mod |-> c.text_mod,
   prop_mod |-> c.prop_mod, copyfrom_path |-> c.copyfrom_path,
   copyfrom_rev |-> c.copyfrom_rev]

\* variant of replace_change: the node-rev id of the old record is kept
replace_change_oldid(old_change, new_change) ==
  [old_change EXCEPT
     !.node_kind = new_change.node_kind,
     !.text_mod = new_change.text_mod,
     !.prop_mod = new_change.prop_mod,
     !.copyfrom_rev = new_change.copyfrom_rev,
     !.copyfrom_path = IF new_change.copyfrom_rev = 0 - 1 THEN NoPath
                       ELSE new_change.copyfrom_path]

\* replace_change lines 636-658
replace_change(old_change, new_change) ==
  [old_change EXCEPT
     !.node_kind = new_change.node_kind,
     !.node_rev_id = new_change.node_rev_id,
     !.text_mod = new_change.text_mod,
     !.prop_mod = new_change.prop_mod,
     !.copyfrom_rev = new_change.copyfrom_rev,
     !.copyfrom_path = IF new_change.copyfrom_rev = 0 - 1 THEN NoPath
                       ELSE new_change.copyfrom_path]

\* fold_change lines 677-715: the sanity checks for a path that is in the
\* hash already
fold_change_err(old_change, info) ==
  IF info.node_rev_id = 0 /\ info.change_kind # "reset"
  THEN "Corrupt"
  ELSE IF /\ info.node_rev_id # 0
          /\ old_change.node_rev_id # info.node_rev_id
          /\ old_change.change_kind # "delete"
  THEN "Corrupt"
  ELSE IF /\ old_change.change_kind = "delete"
          /\ info.change_kind \notin {"replace", "reset", "movereplace",
                                      "move", "add"}
  THEN "Corrupt"
  ELSE IF /\ info.change_kind = "add"
          /\ old_change.change_kind \notin {"delete", "reset"}
  THEN "Corrupt"
  ELSE "OK"

\* variant of fold_change_merge: a delete keeps the copyfrom of the record
\* and a modify takes the bits of the change
fold_change_merge_keep(old_change, info) ==
  CASE info.change_kind = "reset" -> NoChange
    [] info.change_kind = "delete" ->
         IF old_change.change_kind \in {"add", "move"} THEN NoChange
         ELSE [old_change EXCEPT !.change_kind = "delete",
                                 !.text_mod = info.text_mod,
                                 !.prop_mod = info.prop_mod]
    [] info.change_kind \in {"add", "replace"} ->
         [replace_change(old_change, info)
            EXCEPT !.change_kind = "replace"]
    [] info.change_kind \in MoveKinds ->
         [replace_change(old_change, info)
            EXCEPT !.change_kind = "movereplace"]
    [] OTHER ->
         [old_change EXCEPT !.text_mod = info.text_mod,
                            !.prop_mod = info.prop_mod]

\* fold_change lines 717-767: the record the change INFO makes of the
\* record OLD_CHANGE of its path (NoChange: the path is removed)
fold_change_merge(old_change, info) ==
  CASE info.change_kind = "reset" -> NoChange
    [] info.change_kind = "delete" ->
         IF old_change.change_kind \in {"add", "move"} THEN NoChange
         ELSE [old_change EXCEPT !.change_kind = "delete",
                                 !.text_mod = info.text_mod,
                                 !.prop_mod = info.prop_mod,
                                 !.copyfrom_rev = 0 - 1,
                                 !.copyfrom_path = NoPath]
    [] info.change_kind \in {"add", "replace"} ->
         [replace_change(old_change, info)
            EXCEPT !.change_kind = "replace"]
    [] info.change_kind \in MoveKinds ->
         [replace_change(old_change, info)
            EXCEPT !.change_kind = "movereplace"]
    [] OTHER ->
         [old_change EXCEPT !.text_mod = @ \/ info.text_mod,
                            !.prop_mod = @ \/ info.prop_mod]

\* variant of fold_change: a reset that is the first change of its path
\* is not recorded
fold_change_noreset(changes, change) ==
  LET old_change == changes[change.path]
      info == ChangeInfo(change)
  IN IF old_change # NoChange
     THEN IF fold_change_err(old_change, info) # "OK"
          THEN [err |-> "Corrupt", changes |-> changes]
          ELSE [err |-> "OK",
                changes |-> [changes EXCEPT ![change.path] =
                               fold_change_merge(old_change, info)]]
     ELSE [err |-> "OK",
           changes |-> IF info.change_kind = "reset" THEN changes
                       ELSE [changes EXCEPT ![change.path] = info]]

\* fold_change lines 663-794
fold_change(changes, change) ==
  LET old_change == changes[change.path]
      info == ChangeInfo(change)
  IN IF old_change # NoChange
     THEN IF fold_change_err(old_change, info) # "OK"
          THEN [err |-> "Corrupt", changes |-> changes]
          ELSE [err |-> "OK",
                changes |-> [changes EXCEPT ![change.path] =
                               fold_change_merge(old_change, info)]]
     ELSE [err |-> "OK",
           changes |-> [changes EXCEPT ![change.path] = info]]

\* variant of RemoveChildren: nothing is removed
RemoveChildren_none(changes, change) ==
  changes

\* process_changes lines 826-868: after a deletion or replacement the
\* entries of the paths below the change's path are removed from the hash
RemoveChildren(changes, change) ==
  LET path_len == Len(change.path)
      min_child_len == IF path_len = 0 THEN 1
                       ELSE IF change.path[path_len] = "/"
                       THEN path_len + 1 ELSE path_len + 2
  IN IF change.change_kind \in DeletionKinds
     THEN [p \in Paths |->
             IF /\ Len(p) >= min_child_len
                /\ svn_dirent_is_child(change.path, p)
             THEN NoChange ELSE changes[p]]
     ELSE changes

\* process_changes lines 800-874 from the change I of the list on
RECURSIVE process_changes(_, _, _)
process_changes(changed_paths, changes, i) ==
  IF i > Len(changes) THEN [err |-> "OK", changes |-> changed_paths]
  ELSE LET r == fold_change(changed_paths, changes[i]) IN
       IF r.err # "OK" THEN r
       ELSE process_changes(RemoveChildren(r.changes, changes[i]),
                            changes, i + 1)

\* svn_fs_x__add_change: one change record is appended to the changes file
svn_fs_x__add_change(w, t, path, shape) ==
  /\ At(w, "idle") /\ HasTxn(w, t)
  /\ Len(txns[t].log) < MaxChanges
  /\ txns' = [txns EXCEPT ![t].log = Append(@, MakeChange(path, shape)),
                          ![t].changes = @ + 1]
  /\ UNCHANGED <<current, revs, txn_current, rep_cache,
                 flocks, mutex, registry, th, proc, hist>>

\* commit_body line 3106, svn_fs_x__txn_changes_fetch: the changes file is
\* read and folded into a new hash
svn_fs_x__txn_changes_fetch(w, t) ==
  LET r == process_changes(EmptyChanges, txns[t].log, 1) IN
  /\ At(w, "idle") /\ HasTxn(w, t)
  /\ Set(w, [pc |-> IF r.err = "OK" THEN "ch_fetched" ELSE "ch_failed",
             op |-> "changes", txn |-> t, err |-> r.err,
             new_rev |-> current + 1, changed_paths |-> r.changes])
  /\ UNCHANGED <<diskVars, flocks, mutex, registry, proc, hist>>

\* variant of check_for_duplicate_move_source: a source at or below a
\* known source counts as known
check_for_duplicate_move_source_tree(source_paths, change) ==
  IF change.change_kind \in MoveKinds /\ change.copyfrom_path # NoPath
  THEN IF \E s \in source_paths :
            svn_dirent_is_ancestor(s, change.copyfrom_path)
       THEN [err |-> "AmbiguousMove", source_paths |-> source_paths]
       ELSE [err |-> "OK",
             source_paths |-> source_paths \cup {change.copyfrom_path}]
  ELSE [err |-> "OK", source_paths |-> source_paths]

\* check_for_duplicate_move_source lines 2830-2852
check_for_duplicate_move_source(source_paths, change) ==
  IF change.change_kind \in MoveKinds /\ change.copyfrom_path # NoPath
  THEN IF change.copyfrom_path \in source_paths
       THEN [err |-> "AmbiguousMove", source_paths |-> source_paths]
       ELSE [err |-> "OK",
             source_paths |-> source_paths \cup {change.copyfrom_path}]
  ELSE [err |-> "OK", source_paths |-> source_paths]

\* verify_moves lines 2937-2940: `for (i = 0; moves->nelts; ++i)' has no
\* bound on i.  The moves are checked in turn; when none of them fails
\* the loop goes on to element nelts.  The array was made with room for
\* 16 items (line 2871) and its unused items are zero, so with the up to
\* three moves of the model that item's value is NULL and
\* check_for_duplicate_move_source reads through it: the process dies.
\* The code behind the loop (2942-2987) is never reached.
RECURSIVE DuplicateMoveSources(_, _, _, _)
DuplicateMoveSources(changed_paths, moves, i, source_paths) ==
  IF i > Len(moves) THEN "Crash"
  ELSE LET r == check_for_duplicate_move_source(source_paths,
                                                changed_paths[moves[i]])
       IN IF r.err # "OK" THEN r.err
          ELSE DuplicateMoveSources(changed_paths, moves, i + 1,
                                    r.source_paths)

\* verify_moves lines 2876-2940: the moves with a copyfrom path are
\* collected and sorted; without moves the result is success.  (The
\* deletions collected and rewritten in 2905-2935 are used only behind
\* the loop.)
verify_moves_err(changed_paths) ==
  LET moves == SortPaths({p \in Paths :
                            /\ changed_paths[p] # NoChange
                            /\ changed_paths[p].change_kind \in MoveKinds
                            /\ changed_paths[p].copyfrom_path # NoPath})
  IN IF moves = <<>> THEN "OK"
     ELSE DuplicateMoveSources(changed_paths, moves, 1, {})

\* svn_sort__bsearch_lower_bound(ARRAY, KEY, svn_sort_compare_paths): the
\* lowest index at which KEY could be inserted into the sorted ARRAY, that
\* is the index of its first element that does not sort before KEY
\* (Len(ARRAY) + 1 when there is none)
svn_sort__bsearch_lower_bound(array, key) ==
  Cardinality({i \in 1..Len(array) : PathLess(array[i], key)}) + 1

\* svn_dirent_skip_ancestor: the rest of CHILD_PATH behind PARENT_PATH,
\* empty when they are equal; found is FALSE for the NULL result
svn_dirent_skip_ancestor(parent_path, child_path) ==
  IF parent_path = child_path THEN [found |-> TRUE, relpath |-> <<>>]
  ELSE IF svn_dirent_is_child(parent_path, child_path)
  THEN [found |-> TRUE,
        relpath |-> SubSeq(child_path, Len(parent_path) + 2,
                           Len(child_path))]
  ELSE [found |-> FALSE, relpath |-> <<>>]

\* svn_dirent_join
svn_dirent_join(base, component) ==
  IF component = <<>> THEN base ELSE base \o <<"/">> \o component

\* verify_moves lines 2876-2935: the paths of the deletions (delete,
\* replace, movereplace) of CHANGED_PATHS, each with the path it stands
\* for after the correction: without moves the deletions are as
\* collected; else a deletion is rewritten when the move found by
\* svn_sort__bsearch_lower_bound in the sorted moves is its ancestor
CorrectedDeletions(changed_paths) ==
  LET moves == SortPaths({p \in Paths :
                            /\ changed_paths[p] # NoChange
                            /\ changed_paths[p].change_kind \in MoveKinds
                            /\ changed_paths[p].copyfrom_path # NoPath})
      deletions == {p \in Paths :
                      /\ changed_paths[p] # NoChange
                      /\ changed_paths[p].change_kind \in DeletionKinds}
  IN [deleted_path \in deletions |->
        LET closest_move_idx ==
              svn_sort__bsearch_lower_bound(moves, deleted_path)
        IN IF closest_move_idx <= Len(moves)
           THEN LET key == moves[closest_move_idx]
                    rel == svn_dirent_skip_ancestor(key, deleted_path)
                IN IF rel.found
                   THEN svn_dirent_join(changed_paths[key].copyfrom_path,
                                        rel.relpath)
                   ELSE deleted_path
           ELSE deleted_path]

\* commit_body line 3109: verify_moves on the folded changes
verify_moves(w) ==
  LET e == verify_moves_err(th[w].changed_paths) IN
  /\ At(w, "ch_fetched")
  /\ Set(w, [pc |-> IF e = "OK" THEN "ch_verified"
                    ELSE IF e = "Crash" THEN "crashed" ELSE "ch_failed",
             err |-> e,
             deletions |-> CorrectedDeletions(th[w].changed_paths)])
  /\ UNCHANGED <<diskVars, flocks, mutex, registry, proc, hist>>

\* svn_fs_x__write_changes with TERMINATE_LIST: one entry for each record
\* of the hash, in the order of the paths; an entry is the list of the
\* path and the fields of the record
svn_fs_x__write_changes(changed_paths) ==
  LET paths == SortPaths({p \in Paths : changed_paths[p] # NoChange}) IN
  [i \in 1..Len(paths) |->
     LET c == changed_paths[paths[i]] IN
     <<c.node_rev_id, c.change_kind, c.node_kind, c.text_mod, c.prop_mod,
       paths[i], c.copyfrom_rev, c.copyfrom_path>>]

\* svn_fs_x__read_changes: the change records of the entries of a
\* changes list
svn_fs_x__read_changes(entries) ==
  [i \in 1..Len(entries) |->
     [path |-> entries[i][6], change_kind |-> entries[i][2],
      node_rev_id |-> entries[i][1], node_kind |-> entries[i][3],
      text_mod |-> entries[i][4], prop_mod |-> entries[i][5],
      copyfrom_path |-> entries[i][8], copyfrom_rev |-> entries[i][7]]]

\* the entries of the records of the changes log
RawEntries(log) ==
  [i \in 1..Len(log) |->
     <<log[i].node_rev_id, log[i].change_kind, log[i].node_kind,
       log[i].text_mod, log[i].prop_mod, log[i].path,
       log[i].copyfrom_rev, log[i].copyfrom_path>>]

\* write_final_changed_path_info lines 2675-2683: every move of the hash
\* gets copyfrom_rev NEW_REV - 1
FinalChanges(changed_paths, new_rev) ==
  [p \in Paths |->
     IF changed_paths[p].change_kind = "move"
     THEN [changed_paths[p] EXCEPT !.copyfrom_rev = new_rev - 1]
     ELSE changed_paths[p]]

\* variant of write_final_changed_path_info: the records of the changes
\* log are written as they are
write_final_changed_path_info_raw(w) ==
  LET t == th[w].txn
      final == FinalChanges(th[w].changed_paths, th[w].new_rev)
  IN
  /\ At(w, "ch_verified")
  /\ txns' = [txns EXCEPT ![t].final_changes = RawEntries(txns[t].log)]
  /\ Set(w, [pc |-> "ch_written", changed_paths |-> final])
  /\ UNCHANGED <<current, revs, txn_current, rep_cache,
                 flocks, mutex, registry, proc, hist>>

\* write_final_changed_path_info lines 2659-2704: the folded changes go
\* to the proto-rev file
write_final_changed_path_info(w) ==
  LET t == th[w].txn
      final == FinalChanges(th[w].changed_paths, th[w].new_rev)
  IN
  /\ At(w, "ch_verified")
  /\ txns' = [txns EXCEPT ![t].final_changes =
                 svn_fs_x__write_changes(final)]
  /\ Set(w, [pc |-> "ch_written", changed_paths |-> final])
  /\ UNCHANGED <<current, revs, txn_current, rep_cache,
                 flocks, mutex, registry, proc, hist>>

\* svn_fs_x__paths_changed lines 906-928: the changes list of the
\* revision is read and put into a hash by path, without folding
svn_fs_x__paths_changed(w) ==
  LET changes == svn_fs_x__read_changes(txns[th[w].txn].final_changes) IN
  /\ At(w, "ch_written")
  /\ Set(w, [pc |-> "ch_read",
             read_changes |->
               [p \in Paths |->
                  IF \E i \in 1..Len(changes) : changes[i].path = p
                  THEN ChangeInfo(changes[CHOOSE i \in 1..Len(changes) :
                                    /\ changes[i].path = p
                                    /\ \A j \in (i + 1)..Len(changes) :
                                         changes[j].path # p])
                  ELSE NoChange]])
  /\ UNCHANGED <<diskVars, flocks, mutex, registry, proc, hist>>

\* ------------------------------------------ transaction properties (4.9)
\* property values are strings, written as tuples; NULL is the empty tuple
NoValue == <<>>
SVN_PROP_REVISION_DATE == "svn:date"
SVN_PROP_REVISION_LOG == "svn:log"
SVN_FS__PROP_TXN_CHECK_OOD == "svn:check-ood"
SVN_FS__PROP_TXN_CHECK_LOCKS == "svn:check-locks"
SVN_FS__PROP_TXN_CLIENT_DATE == "svn:client-date"
PropNames == {SVN_PROP_REVISION_DATE, SVN_PROP_REVISION_LOG,
              SVN_FS__PROP_TXN_CHECK_OOD, SVN_FS__PROP_TXN_CHECK_LOCKS,
              SVN_FS__PROP_TXN_CLIENT_DATE}
NoProps == [n \in PropNames |-> NoValue]

\* the readings of apr_time_now
Times == 1..MaxTime

\* svn_time_to_cstring: the timestamp string of the time T
svn_time_to_cstring(t) == <<"date", t>>

\* the svn:date values a client supplies: a date before all clock readings
ClientDates == {svn_time_to_cstring(0)}

\* change_txn_props lines 1150-1160: the modifications PROPS, a list of
\* <<name, value>>, applied to the hash TXN_PROP from item I on
RECURSIVE ApplyProps(_, _, _)
ApplyProps(txn_prop, props, i) ==
  IF i > Len(props) THEN txn_prop
  ELSE LET name == props[i][1]
           marked ==
             IF /\ txn_prop[SVN_FS__PROP_TXN_CLIENT_DATE] # NoValue
                /\ name = SVN_PROP_REVISION_DATE
             THEN [txn_prop EXCEPT ![SVN_FS__PROP_TXN_CLIENT_DATE] = <<"1">>]
             ELSE txn_prop
       IN ApplyProps([marked EXCEPT ![name] = props[i][2]], props, i + 1)

\* change_txn_props lines 1126-1179: the property file of the transaction
\* is read (a missing file is an empty list), changed and written to the
\* props file or, with FINAL, to the props-final file
change_txn_props(t, props, final) ==
  LET txn_prop == IF txns[t].props_exists THEN txns[t].props ELSE NoProps
      new_prop == ApplyProps(txn_prop, props, 1)
  IN IF final
     THEN [txns EXCEPT ![t].props_final = new_prop,
                       ![t].props_final_exists = TRUE]
     ELSE [txns EXCEPT ![t].props = new_prop, ![t].props_exists = TRUE]

\* svn_fs_x__begin_txn lines 3481-3516: the new transaction gets a
\* datestamp and the properties of its flags
BeginProps(flags, now) ==
  <<<<SVN_PROP_REVISION_DATE, svn_time_to_cstring(now)>>>>
  \o (IF "check-ood" \in flags
      THEN <<<<SVN_FS__PROP_TXN_CHECK_OOD, <<"true">>>>>> ELSE <<>>)
  \o (IF "check-locks" \in flags
      THEN <<<<SVN_FS__PROP_TXN_CHECK_LOCKS, <<"true">>>>>> ELSE <<>>)
  \o (IF "client-date" \in flags
      THEN <<<<SVN_FS__PROP_TXN_CLIENT_DATE, <<"0">>>>>> ELSE <<>>)

\* svn_fs_x__begin_txn after svn_fs_x__create_txn
svn_fs_x__begin_txn(w, t, flags, now) ==
  /\ At(w, "idle") /\ HasTxn(w, t)
  /\ ~txns[t].props_exists
  /\ now >= hist.clock
  /\ txns' = change_txn_props(t, BeginProps(flags, now), FALSE)
  /\ hist' = [hist EXCEPT !.clock = now]
  /\ UNCHANGED <<current, revs, txn_current, rep_cache,
                 flocks, mutex, registry, th, proc>>

\* svn_fs_x__change_txn_prop lines 1110-1124: one property is changed
svn_fs_x__change_txn_prop(w, t, name, value) ==
  /\ At(w, "idle") /\ HasTxn(w, t)
  /\ txns[t].props_exists
  /\ txns' = change_txn_props(t, <<<<name, value>>>>, FALSE)
  /\ txns' # txns
  /\ UNCHANGED <<current, revs, txn_current, rep_cache,
                 flocks, mutex, registry, th, proc, hist>>

\* variant of FinalMods: svn:date is set to the commit time in any case
FinalMods_now(txnprops, now) ==
  (IF txnprops[SVN_FS__PROP_TXN_CHECK_OOD] # NoValue
   THEN <<<<SVN_FS__PROP_TXN_CHECK_OOD, NoValue>>>> ELSE <<>>)
  \o (IF txnprops[SVN_FS__PROP_TXN_CHECK_LOCKS] # NoValue
      THEN <<<<SVN_FS__PROP_TXN_CHECK_LOCKS, NoValue>>>> ELSE <<>>)
  \o (IF txnprops[SVN_FS__PROP_TXN_CLIENT_DATE] # NoValue
      THEN <<<<SVN_FS__PROP_TXN_CLIENT_DATE, NoValue>>>> ELSE <<>>)
  \o <<<<SVN_PROP_REVISION_DATE, svn_time_to_cstring(now)>>>>

\* write_final_revprop lines 3008-3045: the modifications that make the
\* final revision properties of the transaction properties
FinalMods(txnprops, now) ==
  (IF txnprops[SVN_FS__PROP_TXN_CHECK_OOD] # NoValue
   THEN <<<<SVN_FS__PROP_TXN_CHECK_OOD, NoValue>>>> ELSE <<>>)
  \o (IF txnprops[SVN_FS__PROP_TXN_CHECK_LOCKS] # NoValue
      THEN <<<<SVN_FS__PROP_TXN_CHECK_LOCKS, NoValue>>>> ELSE <<>>)
  \o (IF txnprops[SVN_FS__PROP_TXN_CLIENT_DATE] # NoValue
      THEN <<<<SVN_FS__PROP_TXN_CLIENT_DATE, NoValue>>>> ELSE <<>>)
  \o (IF txnprops[SVN_FS__PROP_TXN_CLIENT_DATE] # <<"1">>
      THEN <<<<SVN_PROP_REVISION_DATE, svn_time_to_cstring(now)>>>>
      ELSE <<>>)

\* commit_body line 3199, write_final_revprop lines 2994-3059
write_final_revprop(w, t, now) ==
  LET txnprops == txns[t].props
      final_mods == FinalMods(txnprops, now)
  IN
  /\ At(w, "idle") /\ HasTxn(w, t)
  /\ txns[t].props_exists
  /\ now >= hist.clock
  /\ hist' = [hist EXCEPT !.clock = now]
  /\ IF final_mods # <<>>
     THEN /\ txns' = change_txn_props(t, final_mods, TRUE)
          /\ Set(w, [pc |-> "rp_final", op |-> "revprops", txn |-> t,
                     new_rev |-> current + 1, txnprops |-> txnprops,
                     now |-> now, path |-> "props-final"])
     ELSE /\ UNCHANGED txns
          /\ Set(w, [pc |-> "rp_final", op |-> "revprops", txn |-> t,
                     new_rev |-> current + 1, txnprops |-> txnprops,
                     now |-> now, path |-> "props"])
  /\ UNCHANGED <<current, revs, txn_current, rep_cache,
                 flocks, mutex, registry, proc>>

\* commit_body lines 3200-3202: the file write_final_revprop named
\* becomes the revision property file of the new revision
MoveRevprops(w) ==
  LET t == th[w].txn IN
  /\ At(w, "rp_final")
  /\ revs' = [revs EXCEPT ![th[w].new_rev] =
                 [revprops |-> IF th[w].path = "props-final"
                               THEN txns[t].props_final
                               ELSE txns[t].props] @@ @]
  /\ txns' = IF th[w].path = "props-final"
             THEN [txns EXCEPT ![t].props_final_exists = FALSE]
             ELSE [txns EXCEPT ![t].props_exists = FALSE]
  /\ Set(w, [pc |-> "rp_done"])
  /\ UNCHANGED <<current, txn_current, rep_cache,
                 flocks, mutex, registry, proc, hist>>

\* ------------------------------------------------- the specifications
\* the steps of with_some_lock_file, shared by commit and begin
LockSteps ==
  \/ \E w \in Workers : LockMutex(w)
  \/ \E w \in Workers : get_lock_on_filesystem(w)
  \/ \E w \in Workers : Refresh(w)
  \/ \E w \in Workers : DestroySubpool(w)

\* the steps of svn_fs_x__commit and svn_fs_x__purge_txn
CommitSteps ==
  \/ \E w \in Workers : \E t \in TxnIds : StartCommit(w, t)
  \/ \E w \in Workers : CheckOutOfDate(w)
  \/ \E w \in Workers : VerifyLocksAndMoves(w)
  \/ \E w \in Workers : get_writable_proto_rev_body(w)
  \/ \E w \in Workers : get_writable_proto_rev(w)
  \/ \E w \in Workers : WriteFinalRev(w)
  \/ \E w \in Workers : CreateShards(w)
  \/ \E w \in Workers : CreateL2PIndex(w)
  \/ \E w \in Workers : CreateP2LIndex(w)
  \/ \E w \in Workers : MoveRevIntoPlace(w)
  \/ \E w \in Workers : UnlockProtoRev(w)
  \/ \E w \in Workers : MoveRevpropsIntoPlace(w)
  \/ \E w \in Workers : WriteCurrent(w)
  \/ \E w \in Workers : WriteRepsToCache(w)
  \/ \E w \in Workers : PurgeSharedTxn(w)
  \/ \E w \in Workers : RemoveTxnDir(w)
  \/ \E w \in Workers : RemoveProtoRevFiles(w)

\* Spec: transactions are begun and committed by two threads.
\* A begin is one step here; its own steps are interleaved in SpecBegin.
Next ==
  \/ \E w \in Workers : \E rev \in Revs : svn_fs_x__create_txn(w, rev)
  \/ LockSteps
  \/ CommitSteps
  \/ \E w \in Workers : ClearPool(w)
  \/ \E p \in Procs : Crash(p)

Spec == Init /\ [][Next]_vars

\* SpecBegin: two threads begin transactions, step by step.
NextBegin ==
  \/ \E w \in Workers : \E rev \in Revs : StartBegin(w, rev)
  \/ LockSteps
  \/ \E w \in Workers : ReadTxnCurrent(w)
  \/ \E w \in Workers : WriteTxnCurrent(w)
  \/ \E w \in Workers : MakeTxnDir(w)
  \/ \E w \in Workers : CreateTxnFiles(w)
  \/ \E w \in Workers : ClearPool(w)
  \/ \E p \in Procs : Crash(p)

SpecBegin == Init /\ [][NextBegin]_vars

\* SpecRep: one transaction has been begun; two threads write
\* representations to it, commit it and abort it.
InitRep ==
  /\ current \in 0..MaxInitRev
  /\ revs = [r \in Revs |-> IF r <= current THEN BaseRev ELSE NoRev]
  /\ txn_current = 1
  /\ txns = [t \in TxnIds |->
               IF t = 0
               THEN FreshTxn(0, current,
                             CHOOSE src \in RootNodeRevs(current) :
                               src.copyfrom_rev = 0 - 1)
               ELSE NoTxnFiles]
  /\ flocks = [write |-> 0, txncur |-> 0, proto |-> [t \in TxnIds |-> 0]]
  /\ rep_cache = {}
  /\ mutex = [p \in Procs |-> [write |-> 0, txncur |-> 0]]
  /\ registry = [p \in Procs |-> <<>>]
  /\ th = [w \in Workers |-> Idle]
  /\ proc \in Layouts
  /\ hist = [current0 |-> current, minted |-> <<0>>, assigned |-> <<>>]

NextRep ==
  \/ \E w \in Workers : \E t \in TxnIds : StartRep(w, t)
  \/ \E w \in Workers : rep_write_get_baton(w)
  \/ \E w \in Workers : rep_write_contents(w)
  \/ \E w \in Workers : rep_write_contents_close(w)
  \/ \E w \in Workers : rep_write_contents_close_tail(w)
  \/ \E w \in Workers : NestedWrite(w)
  \/ \E w \in Workers : \E t \in TxnIds : StartAbort(w, t)
  \/ LockSteps
  \/ CommitSteps
  \/ \E w \in Workers : ClearPool(w)
  \/ \E p \in Procs : Crash(p)

SpecRep == InitRep /\ [][NextRep]_vars

\* SpecAbort: two transactions have been begun in a new repository; two
\* threads write representations to them and abort them.
InitAbort ==
  /\ current = 0
  /\ revs = [r \in Revs |-> IF r <= current THEN BaseRev ELSE NoRev]
  /\ txn_current = 2
  /\ txns = [t \in TxnIds |->
               FreshTxn(0, current,
                        CHOOSE src \in RootNodeRevs(current) :
                          src.copyfrom_rev = 0 - 1)]
  /\ flocks = [write |-> 0, txncur |-> 0, proto |-> [t \in TxnIds |-> 0]]
  /\ rep_cache = {}
  /\ mutex = [p \in Procs |-> [write |-> 0, txncur |-> 0]]
  /\ registry = [p \in Procs |-> <<>>]
  /\ th = [w \in Workers |-> Idle]
  /\ proc \in Layouts
  /\ hist = [current0 |-> current, minted |-> <<0, 1>>, assigned |-> <<>>]

NextAbort ==
  \/ \E w \in Workers : \E t \in TxnIds : StartRep(w, t)
  \/ \E w \in Workers : get_writable_proto_rev_body(w)
  \/ \E w \in Workers : get_writable_proto_rev(w)
  \/ \E w \in Workers : rep_write_get_baton(w)
  \/ \E w \in Workers : rep_write_contents(w)
  \/ \E w \in Workers : rep_write_contents_close(w)
  \/ \E w \in Workers : rep_write_contents_close_tail(w)
  \/ \E w \in Workers : \E t \in TxnIds : StartAbort(w, t)
  \/ \E w \in Workers : PurgeSharedTxn(w)
  \/ \E w \in Workers : RemoveTxnDir(w)
  \/ \E w \in Workers : RemoveProtoRevFiles(w)
  \/ \E w \in Workers : ClearPool(w)
  \/ \E p \in Procs : Crash(p)

SpecAbort == InitAbort /\ [][NextAbort]_vars

\* SpecIds: each thread has begun a transaction and reserved ids in it
\* before (the counters stand at 0, at the last one-digit number or
\* beyond); now it reserves node ids, copy ids and item indexes.  The
\* history records the ids handed out per transaction.
InitIds ==
  /\ current = 0
  /\ revs = [r \in Revs |-> IF r <= current THEN BaseRev ELSE NoRev]
  /\ txn_current = 1
  /\ \E n0 \in {0, 35} : \E c0 \in {n0} : \E i0 \in {<<>>, <<"9">>} :
       txns = [t \in TxnIds |->
                 IF t = 0
                 THEN [FreshTxn(1, current,
                                CHOOSE src \in RootNodeRevs(current) :
                                  src.copyfrom_rev = 0 - 1)
                         EXCEPT !.next_ids = IF n0 = 0 THEN @
                                             ELSE next_ids_content(n0, c0),
                                !.item_index = i0]
                 ELSE NoTxnFiles]
  /\ flocks = [write |-> 0, txncur |-> 0, proto |-> [t \in TxnIds |-> 0]]
  /\ rep_cache = {}
  /\ mutex = [p \in Procs |-> [write |-> 0, txncur |-> 0]]
  /\ registry = [p \in Procs |-> <<>>]
  /\ th = [w \in Workers |-> Idle]
  /\ proc \in Layouts
  /\ hist = [current0 |-> current, minted |-> <<0>>, assigned |-> <<>>,
             items0 |-> txns[0].item_index,
             ids0 |-> read_next_ids(txns[0].next_ids).node_id,
             node_ids |-> [t \in TxnIds |-> <<>>],
             copy_ids |-> [t \in TxnIds |-> <<>>],
             item_indexes |-> [t \in TxnIds |-> <<>>]]

NextIds ==
  \/ \E w \in Workers : \E t \in TxnIds : get_new_txn_node_id(w, t)
  \/ \E w \in Workers : \E t \in TxnIds : svn_fs_x__reserve_copy_id(w, t)
  \/ \E w \in Workers : \E t \in TxnIds : allocate_item_index(w, t)

SpecIds == InitIds /\ [][NextIds]_vars

\* SpecShare: thread 1 has begun transaction 0, whose two children of the
\* root are files or directories; the rep-cache db is empty or knows the
\* content "x" from revision 1.  The thread writes file contents, property
\* lists and directory entries and then runs write_final_rev.
InitShare ==
  /\ current = 1
  /\ revs = [r \in Revs |-> IF r <= current THEN BaseRev ELSE NoRev]
  /\ txn_current = 1
  /\ \E k1, k2 \in {"file", "dir"} :
       txns = [t \in TxnIds |->
                 IF t = 0
                 THEN RepFiles(k1, k2)
                        @@ FreshTxn(1, current,
                                    CHOOSE src \in RootNodeRevs(current) :
                                      src.copyfrom_rev = 0 - 1)
                 ELSE NoTxnFiles]
  /\ flocks = [write |-> 0, txncur |-> 0, proto |-> [t \in TxnIds |-> 0]]
  /\ rep_cache \in {{}, {[change_set |-> <<"rev", 1>>,
                          number |-> SVN_FS_X__ITEM_INDEX_FIRST_USER,
                          sha1 |-> sha1_digest("x")]}}
  /\ mutex = [p \in Procs |-> [write |-> 0, txncur |-> 0]]
  /\ registry = [p \in Procs |-> <<>>]
  /\ th = [w \in Workers |-> Idle]
  /\ proc = <<1, 1>>
  /\ hist = [current0 |-> current, minted |-> <<0>>, assigned |-> <<>>]

NextShare ==
  \/ \E w \in Workers : \E t \in TxnIds : \E n \in {1, 2, 3} :
       \E c \in Contents :
         \/ set_representation(w, t, n, c)
         \/ svn_fs_x__set_proplist(w, t, n, c)
         \/ svn_fs_x__set_entry(w, t, n, c)
  \/ \E w \in Workers : \E t \in TxnIds : StartWriteFinalRev(w, t)
  \/ \E w \in Workers : write_final_rev(w)

SpecShare == InitShare /\ [][NextShare]_vars

\* ------------------------------------------ rep write stream, by content
\* error codes svn_fs_x__get_rep_reference can return; the first is
\* SVN_ERR_FS_CORRUPT, the next two are the codes of the category that
\* starts at SVN_ERR_MALFUNC_CATEGORY_START
RepCacheErrors ==
  {"Corrupt", "AssertionFail", "AssertionOnlyTracingLinks",
   "SqliteError", "SqliteBusy"}

\* SVN_ERROR_IN_CATEGORY(err->apr_err, SVN_ERR_MALFUNC_CATEGORY_START)
InMalfuncCategory(e) == e \in {"AssertionFail", "AssertionOnlyTracingLinks"}

\* variant of get_shared_rep_err: every error of the rep-cache lookup is
\* passed to the warning callback and masked
get_shared_rep_err_masked(allowed, t, rep, reps_hash, db_err, check_err) ==
  LET in_hash == {r \in reps_hash : r.sha1 = rep.sha1}
      in_db == {r \in rep_cache : r.sha1 = rep.sha1}
      in_txn == IF rep.change_set[1] = "txn"
                THEN {r \in txns[t].sha1s : r.sha1 = rep.sha1}
                ELSE {}
      from_txn == IF in_txn # {} THEN CHOOSE r \in in_txn : TRUE ELSE NoRep
  IN IF ~allowed
     THEN [err |-> "OK", old_rep |-> NoRep, warning |-> "none",
           lookup |-> FALSE]
     ELSE IF in_hash # {}
     THEN [err |-> "OK", old_rep |-> CHOOSE r \in in_hash : TRUE,
           warning |-> "none", lookup |-> FALSE]
     ELSE IF db_err = "OK"
     THEN IF in_db # {}
          THEN IF check_err = "OK"
               THEN [err |-> "OK", old_rep |-> CHOOSE r \in in_db : TRUE,
                     warning |-> "none", lookup |-> TRUE]
               ELSE [err |-> check_err, old_rep |-> NoRep,
                     warning |-> "none", lookup |-> TRUE]
          ELSE [err |-> "OK", old_rep |-> from_txn, warning |-> "none",
                lookup |-> TRUE]
     ELSE [err |-> "OK", old_rep |-> from_txn, warning |-> db_err,
           lookup |-> TRUE]

\* get_shared_rep lines 1901-1992 with its errors: ALLOWED is
\* ffd->rep_sharing_allowed, DB_ERR the result of
\* svn_fs_x__get_rep_reference and CHECK_ERR that of svn_fs_x__check_rep.
\* The result holds the error returned, the rep found, the error handed to
\* fs->warning and whether the rep-cache db was consulted.
get_shared_rep_err(allowed, t, rep, reps_hash, db_err, check_err) ==
  LET in_hash == {r \in reps_hash : r.sha1 = rep.sha1}
      in_db == {r \in rep_cache : r.sha1 = rep.sha1}
      in_txn == IF rep.change_set[1] = "txn"
                THEN {r \in txns[t].sha1s : r.sha1 = rep.sha1}
                ELSE {}
      from_txn == IF in_txn # {} THEN CHOOSE r \in in_txn : TRUE ELSE NoRep
  IN IF ~allowed
     THEN [err |-> "OK", old_rep |-> NoRep, warning |-> "none",
           lookup |-> FALSE]
     ELSE IF in_hash # {}
     THEN [err |-> "OK", old_rep |-> CHOOSE r \in in_hash : TRUE,
           warning |-> "none", lookup |-> FALSE]
     ELSE IF db_err = "OK"
     THEN IF in_db # {}
          THEN IF check_err = "OK"
               THEN [err |-> "OK", old_rep |-> CHOOSE r \in in_db : TRUE,
                     warning |-> "none", lookup |-> TRUE]
               ELSE [err |-> check_err, old_rep |-> NoRep,
                     warning |-> "none", lookup |-> TRUE]
          ELSE [err |-> "OK", old_rep |-> from_txn, warning |-> "none",
                lookup |-> TRUE]
     ELSE IF db_err = "Corrupt" \/ InMalfuncCategory(db_err)
     THEN [err |-> db_err, old_rep |-> NoRep, warning |-> "none",
           lookup |-> TRUE]
     ELSE [err |-> "OK", old_rep |-> from_txn, warning |-> db_err,
           lookup |-> TRUE]

\* svn_fs_x__set_contents(noderev) is called for the file node N of an
\* open transaction: rep_write_get_baton starts with get_writable_proto_rev
svn_fs_x__set_contents(w, t, n) ==
  /\ At(w, "idle")
  /\ HasTxn(w, t)
  /\ txns[t].noderevs[n].kind = "file"
  /\ txns[t].noderevs[n].data_rep = NoRep
  /\ Set(w, [pc |-> "getproto", op |-> "rep", txn |-> t, node |-> n,
             sha1_checksum_ctx |-> "", warning |-> "none",
             lookup |-> FALSE])
  /\ UNCHANGED <<diskVars, flocks, mutex, registry, proc, hist>>

\* rep_write_get_baton lines 1850-1875 on the file content: the rep header
\* is appended at rep_offset and rep_write_cleanup is registered; a
\* failure returns before the registration
write_rep_header(w) ==
  LET t == th[w].txn IN
  /\ At(w, "r_header")
  /\ \/ /\ txns' = [txns EXCEPT ![t].proto = @ + 1,
                                ![t].protorev = Append(@, "DELTA\n")]
        /\ \/ Set(w, [pc |-> "r_open", cleanup |-> TRUE])
           \/ Fail(w, "IO", "ret")
     \/ /\ UNCHANGED txns
        /\ Fail(w, "IO", "ret")
  /\ UNCHANGED <<current, revs, txn_current, rep_cache,
                 flocks, mutex, registry, proc, hist>>

\* rep_write_contents lines 1653-1668: the data C goes into the checksum
\* contexts and, as svndiff, into the proto-rev file
svn_stream_write(w, c) ==
  LET t == th[w].txn IN
  /\ At(w, "r_open")
  /\ th[w].sha1_checksum_ctx = ""
  /\ \/ /\ txns' = [txns EXCEPT ![t].proto = @ + 1,
                                ![t].protorev = Append(@, c)]
        /\ Set(w, [sha1_checksum_ctx |-> c])
     \/ /\ UNCHANGED txns
        /\ Fail(w, "IO", "ret")
  /\ UNCHANGED <<current, revs, txn_current, rep_cache,
                 flocks, mutex, registry, proc, hist>>

\* variant of CloseFiles: the data written for a shared rep stays in the
\* proto-rev file
CloseFiles_keep(f, n, rep, old_rep, rep_offset, stored) ==
  LET hit == [f EXCEPT !.noderevs[n].data_rep =
                          IF stored THEN old_rep ELSE @]
      new_rep == [rep EXCEPT !.number = item_index_read(f.item_index)]
      miss == [f EXCEPT
                 !.proto = @ + 1,
                 !.protorev = Append(@, "ENDREP\n"),
                 !.item_index = item_index_written(@),
                 !.l2p = Append(@, [offset |-> rep_offset,
                                    item_index |-> new_rep.number]),
                 !.noderevs[n].data_rep = IF stored THEN new_rep ELSE @,
                 !.sha1s = IF stored THEN @ \cup {new_rep} ELSE @,
                 !.p2l = IF stored
                         THEN Append(@, [offset |-> rep_offset,
                                         size |-> f.proto + 1 - rep_offset,
                                         type |-> "file_rep",
                                         items |-> <<new_rep.number>>])
                         ELSE @]
  IN IF old_rep # NoRep THEN hit ELSE miss

\* rep_write_contents_close lines 2051-2092, the files F of the
\* transaction after them: on a hit (OLD_REP) the proto-rev file is
\* truncated to REP_OFFSET and the node-rev N takes the old rep; else
\* ENDREP is appended, an item index allocated, the l2p proto-index entry
\* stored, the node-rev written with the new rep, the SHA-1 file and the
\* p2l proto-index entry stored.  STORED is false when
\* svn_fs_x__put_node_revision fails, which ends the function.
CloseFiles(f, n, rep, old_rep, rep_offset, stored) ==
  LET hit == [svn_io_file_trunc(f, rep_offset)
                EXCEPT !.noderevs[n].data_rep =
                          IF stored THEN old_rep ELSE @]
      new_rep == [rep EXCEPT !.number = item_index_read(f.item_index)]
      miss == [f EXCEPT
                 !.proto = @ + 1,
                 !.protorev = Append(@, "ENDREP\n"),
                 !.item_index = item_index_written(@),
                 !.l2p = Append(@, [offset |-> rep_offset,
                                    item_index |-> new_rep.number]),
                 !.noderevs[n].data_rep = IF stored THEN new_rep ELSE @,
                 !.sha1s = IF stored THEN @ \cup {new_rep} ELSE @,
                 !.p2l = IF stored
                         THEN Append(@, [offset |-> rep_offset,
                                         size |-> f.proto + 1 - rep_offset,
                                         type |-> "file_rep",
                                         items |-> <<new_rep.number>>])
                         ELSE @]
  IN IF old_rep # NoRep THEN hit ELSE miss

\* the representation rep_write_contents_close builds for the stream of W
\* before it looks for a shared one (lines 2027-2046)
StreamRep(w) ==
  [change_set |-> <<"txn", th[w].txn>>, number |-> 0,
   sha1 |-> sha1_digest(th[w].sha1_checksum_ctx)]

\* rep_write_contents_close lines 2018-2099 as the close of the stream:
\* get_shared_rep, whose error ends the function while the cleanup handler
\* is registered; the hit or miss branch; apr_pool_cleanup_kill; the
\* node-rev and the rest of the files; unlock_proto_rev.  A failure of
\* svn_fs_x__put_node_revision returns after the handler was removed.
svn_stream_close(w, db_err, check_err) ==
  LET p == proc[w]
      t == th[w].txn
      n == th[w].node
      r == get_shared_rep_err(th[w].rep_sharing_allowed, t, StreamRep(w),
                              {}, db_err, check_err)
      seen == [warning |-> r.warning, lookup |-> r.lookup]
  IN
  /\ At(w, "r_open")
  /\ IF r.err # "OK"
     THEN /\ Set(w, seen @@ [pc |-> "ret", err |-> r.err])
          /\ UNCHANGED <<txns, registry, flocks>>
     ELSE \/ /\ txns' = [txns EXCEPT ![t] =
                           CloseFiles(@, n, StreamRep(w), r.old_rep,
                                      th[w].offset, TRUE)]
             /\ registry' = [registry EXCEPT
                               ![p] = SetBeingWritten(@, t, FALSE)]
             /\ flocks' = [flocks EXCEPT !.proto[t] = 0]
             /\ Set(w, seen @@ [pc |-> "ret", cleanup |-> FALSE,
                                lockcookie |-> FALSE])
          \/ /\ txns' = [txns EXCEPT ![t] =
                           CloseFiles(@, n, StreamRep(w), r.old_rep,
                                      th[w].offset, FALSE)]
             /\ Set(w, seen @@ [pc |-> "ret", err |-> "IO",
                                cleanup |-> FALSE])
             /\ UNCHANGED <<registry, flocks>>
  /\ UNCHANGED <<current, revs, txn_current, rep_cache, mutex, proc, hist>>

\* SpecClose: transaction 0 has two files without content; the rep-cache
\* db is empty or knows the content "x" from revision 1.  Two threads of
\* one process, whose filesystem has rep sharing enabled or not, write
\* contents through rep write streams.
InitClose ==
  /\ current = 1
  /\ revs = [r \in Revs |-> IF r <= current THEN BaseRev ELSE NoRev]
  /\ txn_current = 1
  /\ txns = [t \in TxnIds |->
               IF t = 0
               THEN [l2p |-> <<>>, p2l |-> <<>>]
                      @@ RepFiles("file", "file")
                      @@ FreshTxn(0, current,
                                  CHOOSE src \in RootNodeRevs(current) :
                                    src.copyfrom_rev = 0 - 1)
               ELSE NoTxnFiles]
  /\ flocks = [write |-> 0, txncur |-> 0, proto |-> [t \in TxnIds |-> 0]]
  /\ rep_cache \in {{}, {[change_set |-> <<"rev", 1>>,
                          number |-> SVN_FS_X__ITEM_INDEX_FIRST_USER,
                          sha1 |-> sha1_digest("x")]}}
  /\ mutex = [p \in Procs |-> [write |-> 0, txncur |-> 0]]
  /\ registry = [p \in Procs |-> <<>>]
  /\ \E allowed \in BOOLEAN :
       th = [w \in Workers |->
               [rep_sharing_allowed |-> allowed, node |-> 0,
                sha1_checksum_ctx |-> "", warning |-> "none",
                lookup |-> FALSE] @@ Idle]
  /\ proc = <<1, 1>>
  /\ hist = [current0 |-> current, minted |-> <<0>>, assigned |-> <<>>]

NextClose ==
  \/ \E w \in Workers : \E t \in TxnIds : \E n \in {1, 2} :
       svn_fs_x__set_contents(w, t, n)
  \/ \E w \in Workers : get_writable_proto_rev_body(w)
  \/ \E w \in Workers : get_writable_proto_rev(w)
  \/ \E w \in Workers : write_rep_header(w)
  \/ \E w \in Workers : \E c \in Contents : svn_stream_write(w, c)
  \/ \E w \in Workers : \E db_err \in RepCacheErrors \cup {"OK"} :
       \E check_err \in {"OK", "Corrupt"} :
         svn_stream_close(w, db_err, check_err)
  \/ \E w \in Workers : ClearPool(w)

SpecClose == InitClose /\ [][NextClose]_vars

\* ------------------------------------------------- tree rewrite (4.9)
\* SVN_FS_X__ITEM_INDEX_CHANGES and SVN_FS_X__ITEM_INDEX_ROOT_NODE
SVN_FS_X__ITEM_INDEX_CHANGES == 1
SVN_FS_X__ITEM_INDEX_ROOT_NODE == 2

\* The tree of a transaction: the root directory (node 0) has the entries
\* a, the file of node 1, and d, the directory of node 3, whose entry b is
\* the file of node 2.  An id is (node_id, copy_id, noderev_id), each a
\* change set with a number.
TreeNodes == 0..3
RootNode == 0

IdPart(change_set, number) == [change_set |-> change_set, number |-> number]

NoId == [node_id |-> IdPart(<<"none", 0>>, 0),
         copy_id |-> IdPart(<<"none", 0>>, 0),
         noderev_id |-> IdPart(<<"none", 0>>, 0)]

\* the id node N has in revision REV, where it was made
RevId(n, rev) ==
  [node_id |-> IdPart(<<"rev", IF n = RootNode THEN 0 ELSE rev>>, n),
   copy_id |-> IdPart(<<"rev", 0>>, 0),
   noderev_id |-> IdPart(<<"rev", rev>>, SVN_FS_X__ITEM_INDEX_ROOT_NODE + n)]

\* the id of node N in transaction T (svn_fs_x__id_txn_create_root, lines
\* 1423 and 2157): the node-rev id is the item NUMBER of the transaction;
\* a node added in the transaction has a node id of the transaction, one
\* copied in it a copy id of the transaction
TxnId(t, n, rev, mode, number) ==
  [node_id |-> IF mode = "added" THEN IdPart(<<"txn", t>>, 0)
               ELSE RevId(n, rev).node_id,
   copy_id |-> IF mode = "copied" THEN IdPart(<<"txn", t>>, 0)
               ELSE RevId(n, rev).copy_id,
   noderev_id |-> IdPart(<<"txn", t>>, number)]

svn_fs_x__id_is_txn(id) == id.noderev_id.change_set[1] = "txn"
svn_fs_x__is_revision(change_set) == change_set[1] = "rev"

\* get_final_id lines 2435-2441
get_final_id(part, revision) ==
  IF ~svn_fs_x__is_revision(part.change_set)
  THEN [part EXCEPT !.change_set = <<"rev", revision>>]
  ELSE part

\* the names of the entries of the directory node N in the order of
\* svn_sort_compare_items_lexically, and the node an entry of it names
EntryNames(n) == IF n = RootNode THEN <<"a", "d">>
                 ELSE IF n = 3 THEN <<"b">> ELSE <<>>

EntryNode(name) == IF name = "a" THEN 1 ELSE IF name = "b" THEN 2 ELSE 3

\* write_final_rev lines 2496-2520: the nodes of the transaction in the
\* order in which the recursion that starts at node N reaches line 2584
RECURSIVE FinalWalkFrom(_, _, _)
RECURSIVE FinalWalk(_, _)
FinalWalkFrom(noderevs, names, i) ==
  IF i > Len(names) THEN <<>>
  ELSE FinalWalk(noderevs, EntryNode(names[i]))
         \o FinalWalkFrom(noderevs, names, i + 1)

FinalWalk(noderevs, n) ==
  IF ~svn_fs_x__id_is_txn(noderevs[n].id) THEN <<>>
  ELSE FinalWalkFrom(noderevs, EntryNames(n), 1) \o <<n>>

\* the SHA-1 of the serialized entries of a directory
\* (unparse_dir_entries, svn_hash_write2)
dir_digest(entries) == <<"sha1", "dir", entries>>

\* variant of write_hash_delta_rep_indexed: the phys-to-log entry is
\* stored for a shared rep, too
write_hash_delta_rep_indexed_p2l(t, s, rep, sha1, reps_hash, item_type) ==
  LET r == [rep EXCEPT !.sha1 = sha1]
      old_rep == get_shared_rep(t, r, reps_hash)
      number == item_index_read(s.item_index)
      offset == s.proto
  IN IF old_rep # NoRep
     THEN [s EXCEPT
             !.p2l = Append(@, [offset |-> offset, size |-> 3,
                                type |-> item_type, items |-> <<number>>])]
            @@ [rep |-> old_rep]
     ELSE [s EXCEPT
             !.proto = @ + 3,
             !.protorev = @ \o <<"DELTA\n", "HASH", "ENDREP\n">>,
             !.item_index = item_index_written(@),
             !.l2p = Append(@, [offset |-> offset, item_index |-> number]),
             !.p2l = Append(@, [offset |-> offset, size |-> 3,
                                type |-> item_type, items |-> <<number>>])]
            @@ [rep |-> [r EXCEPT !.number = number]]

\* write_hash_delta_rep lines 2266-2366 on the files S of the transaction
\* (proto-rev file, item-index file, proto-indexes): header, svndiff data
\* and ENDREP are appended at OFFSET; on a hit of get_shared_rep the file is
\* truncated to OFFSET and the rep becomes the old rep; else an item index
\* is allocated and the log-to-phys and phys-to-log entries are stored
write_hash_delta_rep_indexed(t, s, rep, sha1, reps_hash, item_type) ==
  LET r == [rep EXCEPT !.sha1 = sha1]
      old_rep == get_shared_rep(t, r, reps_hash)
      number == item_index_read(s.item_index)
      offset == s.proto
  IN IF old_rep # NoRep
     THEN s @@ [rep |-> old_rep]
     ELSE [s EXCEPT
             !.proto = @ + 3,
             !.protorev = @ \o <<"DELTA\n", "HASH", "ENDREP\n">>,
             !.item_index = item_index_written(@),
             !.l2p = Append(@, [offset |-> offset, item_index |-> number]),
             !.p2l = Append(@, [offset |-> offset, size |-> 3,
                                type |-> item_type, items |-> <<number>>])]
            @@ [rep |-> [r EXCEPT !.number = number]]

\* variant of validate_root_noderev: the difference of the counts is
\* compared with the revision
validate_root_noderev_rev(predecessor_count, head_predecessor_count, rev) ==
  IF /\ predecessor_count # 0 - 1
     /\ predecessor_count - head_predecessor_count # rev
  THEN "Corrupt" ELSE "OK"

\* validate_root_noderev lines 2377-2430 for the root node-rev with
\* PREDECESSOR_COUNT, a candidate for revision REV, when the root of
\* revision REV - 1 has HEAD_PREDECESSOR_COUNT
validate_root_noderev(predecessor_count, head_predecessor_count, rev) ==
  LET head_revnum == rev - 1 IN
  IF /\ predecessor_count # 0 - 1
     /\ predecessor_count - head_predecessor_count # rev - head_revnum
  THEN "Corrupt" ELSE "OK"

\* the nodes of 1..3 that transaction modes MODE put into the transaction
\* and the item number svn_fs_x__create_node / the copy gave node N
TxnNodes(mode) == {n \in 1..3 : mode[n] # "same"}

NodeNumber(mode, n) ==
  IF n = RootNode THEN SVN_FS_X__ITEM_INDEX_ROOT_NODE
  ELSE SVN_FS_X__ITEM_INDEX_FIRST_USER
         + Cardinality({m \in TxnNodes(mode) : m < n})

TreeId(t, mode, n) ==
  IF n = RootNode \/ mode[n] # "same"
  THEN TxnId(t, n, 1, IF n = RootNode THEN "changed" ELSE mode[n],
             NodeNumber(mode, n))
  ELSE RevId(n, 1)

\* the data rep node N has in revision 1
RevDataRep(n) ==
  [change_set |-> <<"rev", 1>>, number |-> 10 + n,
   sha1 |-> IF n \in {1, 2} THEN sha1_digest("y") ELSE <<"sha1", "dir", n>>]

\* the node-revs of transaction T: a node changed in it has a directory
\* whose entry list was changed by svn_fs_x__set_entry; with PROPS the
\* properties of every node of the transaction were set
TreeNodeRevs(t, mode, props, count) ==
  [n \in TreeNodes |->
     LET in_txn == n = RootNode \/ mode[n] # "same"
         kind == IF n \in {1, 2} THEN "file" ELSE "dir"
         children == {EntryNode(EntryNames(n)[i]) :
                        i \in 1..Len(EntryNames(n))}
         touched == \E m \in children : mode[m] # "same"
         prop_number ==
           SVN_FS_X__ITEM_INDEX_FIRST_USER + Cardinality(TxnNodes(mode))
             + Cardinality({m \in TxnNodes(mode) \cup {RootNode} : m < n})
     IN [id |-> TreeId(t, mode, n),
         kind |-> kind,
         predecessor_count |-> IF n = RootNode THEN count ELSE 1,
         data_rep |-> IF in_txn /\ kind = "dir" /\ touched
                      THEN [change_set |-> <<"txn", t>>, number |-> 0,
                            sha1 |-> <<>>]
                      ELSE IF n # RootNode /\ mode[n] = "added" THEN NoRep
                      ELSE RevDataRep(n),
         prop_rep |-> IF in_txn /\ props
                      THEN [change_set |-> <<"txn", t>>,
                            number |-> prop_number, sha1 |-> <<>>]
                      ELSE NoRep,
         props |-> IF in_txn /\ props THEN "x" ELSE "none",
         entries |-> IF n = RootNode
                     THEN [a |-> TreeId(t, mode, 1), d |-> TreeId(t, mode, 3)]
                     ELSE IF n = 3 THEN [b |-> TreeId(t, mode, 2)]
                     ELSE <<>>]]

\* the item-index file after NUMBER items were allocated
ItemIndexAfter(number) ==
  IF number = 0 THEN <<>>
  ELSE svn__ui64toa(SVN_FS_X__ITEM_INDEX_FIRST_USER + number)

TreeModes ==
  {mode \in [1..3 -> {"same", "changed", "added", "copied"}] :
     /\ mode[1] # "copied" /\ mode[2] # "copied" /\ mode[3] # "added"
     /\ mode[2] # "same" => mode[3] # "same"}

\* SpecTree: revision 1 holds the tree; transaction 0 of thread 1 was begun
\* on it and changed some of its nodes.  The contents of the added files
\* are written through rep write streams, then commit_body reaches the
\* tree rewrite.
InitTree ==
  /\ current = 1
  /\ revs = [r \in Revs |-> IF r <= current THEN BaseRev ELSE NoRev]
  /\ txn_current = 1
  /\ \E mode \in TreeModes : \E props \in BOOLEAN :
       \E src \in {r \in RootNodeRevs(current) : r.copyfrom_rev = 0 - 1} :
         \E count \in {create_new_txn_noderev_from_rev(src).predecessor_count,
                       create_new_txn_noderev_from_rev(src).predecessor_count
                         + 1,
                       0 - 1} :
           /\ txns = [t \in TxnIds |->
                        IF t = 0
                        THEN [l2p |-> <<>>, p2l |-> <<>>, final |-> <<>>,
                              protorev |-> <<>>, sha1s |-> {},
                              noderevs |->
                                TreeNodeRevs(0, mode, props, count),
                              item_index |->
                                ItemIndexAfter(
                                  Cardinality(TxnNodes(mode))
                                    + IF props
                                      THEN Cardinality(TxnNodes(mode)) + 1
                                      ELSE 0)]
                               @@ FreshTxn(0, current, src)
                        ELSE NoTxnFiles]
           /\ hist = [current0 |-> current, minted |-> <<0>>,
                      assigned |-> <<>>,
                      head_count |-> src.predecessor_count,
                      begun_count |->
                        create_new_txn_noderev_from_rev(src)
                          .predecessor_count]
  /\ flocks = [write |-> 0, txncur |-> 0, proto |-> [t \in TxnIds |-> 0]]
  /\ rep_cache \in {{}, {[change_set |-> <<"rev", 1>>,
                          number |-> SVN_FS_X__ITEM_INDEX_FIRST_USER,
                          sha1 |-> sha1_digest("x")]}}
  /\ mutex = [p \in Procs |-> [write |-> 0, txncur |-> 0]]
  /\ registry = [p \in Procs |-> <<>>]
  /\ th = [w \in Workers |->
             [rep_sharing_allowed |-> TRUE, node |-> 0,
              sha1_checksum_ctx |-> "", warning |-> "none",
              lookup |-> FALSE, walk |-> <<>>, rewriting |-> FALSE,
              final_ids |-> [n \in TreeNodes |-> NoId],
              reps_hash |-> {}] @@ Idle]
  /\ proc = <<1, 1>>

\* commit_body lines 3114-3120 once the write lock is held and the
\* transaction was found up to date: new_rev = old_rev + 1, then the
\* proto-rev file is locked and opened; the tree rewrite starts at the
\* root of the transaction
StartTreeRewrite(w, t) ==
  /\ At(w, "idle")
  /\ HasTxn(w, t)
  /\ ~th[w].rewriting
  /\ Set(w, [pc |-> "getproto", op |-> "commit", txn |-> t,
             old_rev |-> current, new_rev |-> current + 1,
             walk |-> FinalWalk(txns[t].noderevs, RootNode),
             final_ids |-> [n \in TreeNodes |-> NoId],
             reps_hash |-> {}])
  /\ UNCHANGED <<diskVars, flocks, mutex, registry, proc, hist>>

\* the files of transaction T that the tree rewrite appends to
TreeFiles(t) ==
  [proto |-> txns[t].proto, protorev |-> txns[t].protorev,
   item_index |-> txns[t].item_index,
   l2p |-> txns[t].l2p, p2l |-> txns[t].p2l]

\* variant of FinalEntries: every entry that is part of the transaction
\* keeps its id
FinalEntries_kept(nr, final_ids, rev) == nr.entries

\* write_final_rev lines 2507-2518: the entry of a child that was written
\* to revision REV gets the new id of the child
FinalEntries(nr, final_ids, rev) ==
  [name \in DOMAIN nr.entries |->
     LET new_id == final_ids[EntryNode(name)] IN
     IF new_id # NoId /\ new_id.noderev_id.change_set = <<"rev", rev>>
     THEN new_id ELSE nr.entries[name]]

\* variant of FinalId: the copy id is left as it is
FinalId_copy(id, rev) ==
  [node_id |-> get_final_id(id.node_id, rev),
   copy_id |-> id.copy_id,
   noderev_id |-> get_final_id(id.noderev_id, rev)]

\* write_final_rev lines 2573-2579, 2588
FinalId(id, rev) ==
  [node_id |-> get_final_id(id.node_id, rev),
   copy_id |-> get_final_id(id.copy_id, rev),
   noderev_id |-> get_final_id(id.noderev_id, rev)]

\* write_final_rev lines 2522-2653 for the node at the head of the walk,
\* whose children have been written: the mutable data rep of a directory
\* is written as a hash rep, that of a file is retagged; the mutable prop
\* rep is written as a hash rep; the id becomes final; the log-to-phys
\* entry of the node-rev is stored at the file offset; the new prop rep
\* enters reps_hash; the root is validated; the node-rev is written and
\* its phys-to-log entry stored
write_final_rev_node(w) ==
  LET t == th[w].txn
      rev == th[w].new_rev
      n == Head(th[w].walk)
      nr == txns[t].noderevs[n]
      entries == FinalEntries(nr, th[w].final_ids, rev)
      data ==
        IF nr.kind = "dir"
        THEN IF nr.data_rep # NoRep
                /\ ~svn_fs_x__is_revision(nr.data_rep.change_set)
             THEN write_hash_delta_rep_indexed(
                    t, TreeFiles(t),
                    [nr.data_rep EXCEPT !.change_set = <<"rev", rev>>],
                    dir_digest(entries), {}, "dir_rep")
             ELSE TreeFiles(t) @@ [rep |-> nr.data_rep]
        ELSE TreeFiles(t)
               @@ [rep |-> IF nr.data_rep # NoRep
                              /\ is_txn(nr.data_rep.change_set)
                           THEN [nr.data_rep EXCEPT
                                   !.change_set = <<"rev", rev>>]
                           ELSE nr.data_rep]
      files1 == [k \in DOMAIN TreeFiles(t) |-> data[k]]
      prop ==
        IF nr.prop_rep # NoRep /\ is_txn(nr.prop_rep.change_set)
        THEN write_hash_delta_rep_indexed(
               t, files1,
               [nr.prop_rep EXCEPT !.change_set = <<"rev", rev>>],
               sha1_digest(nr.props), th[w].reps_hash,
               IF nr.kind = "dir" THEN "dir_props" ELSE "file_props")
        ELSE files1 @@ [rep |-> nr.prop_rep]
      new_id == FinalId(nr.id, rev)
      my_offset == prop.proto
      reps_hash == IF rep_sharing_allowed /\ prop.rep # NoRep
                      /\ prop.rep.change_set = <<"rev", rev>>
                   THEN th[w].reps_hash \cup {prop.rep}
                   ELSE th[w].reps_hash
      err == IF n = RootNode
             THEN validate_root_noderev(nr.predecessor_count,
                                        hist.head_count, rev)
             ELSE "OK"
      written == [node |-> n, id |-> new_id, kind |-> nr.kind,
                  predecessor_count |-> nr.predecessor_count,
                  data_rep |-> data.rep, prop_rep |-> prop.rep,
                  entries |-> entries, offset |-> my_offset]
      indexed == [txns[t] EXCEPT
                    !.proto = prop.proto, !.protorev = prop.protorev,
                    !.item_index = prop.item_index,
                    !.p2l = prop.p2l,
                    !.l2p = Append(prop.l2p,
                                   [offset |-> my_offset,
                                    item_index |->
                                      new_id.noderev_id.number])]
  IN
  /\ At(w, "c_write")
  /\ th[w].walk # <<>>
  /\ IF err # "OK"
     THEN /\ txns' = [txns EXCEPT ![t] = indexed]
          /\ Set(w, [pc |-> "destroy", err |-> err, rev |-> 0,
                     old_rev |-> 0, new_rev |-> 0, rewriting |-> TRUE,
                     reps_hash |-> reps_hash])
     ELSE /\ txns' = [txns EXCEPT ![t] =
                        [indexed EXCEPT
                           !.proto = @ + 1,
                           !.protorev = Append(@, "NODEREV"),
                           !.final = Append(@, written),
                           !.p2l = Append(@,
                                          [offset |-> my_offset, size |-> 1,
                                           type |-> "noderev",
                                           items |->
                                             <<new_id.noderev_id.number>>])]]
          /\ Set(w, [walk |-> Tail(th[w].walk), rewriting |-> TRUE,
                     reps_hash |-> reps_hash,
                     final_ids |-> [th[w].final_ids EXCEPT ![n] = new_id]])
  /\ UNCHANGED <<current, revs, txn_current, rep_cache,
                 flocks, mutex, registry, proc, hist>>

\* write_final_changed_path_info lines 2660-2704 after the tree was
\* written: the changes block is appended and its phys-to-log and
\* log-to-phys entries are stored for SVN_FS_X__ITEM_INDEX_CHANGES
write_final_changed_path_info_indexed(w) ==
  LET t == th[w].txn
      offset == txns[t].proto
  IN
  /\ At(w, "c_write")
  /\ th[w].walk = <<>>
  /\ txns' = [txns EXCEPT
                ![t].proto = @ + 1,
                ![t].protorev = Append(@, "CHANGES"),
                ![t].p2l = Append(@, [offset |-> offset, size |-> 1,
                                      type |-> "changes",
                                      items |->
                                        <<SVN_FS_X__ITEM_INDEX_CHANGES>>]),
                ![t].l2p = Append(@, [offset |-> offset,
                                      item_index |->
                                        SVN_FS_X__ITEM_INDEX_CHANGES])]
  /\ Set(w, [pc |-> "c_shard"])
  /\ UNCHANGED <<current, revs, txn_current, rep_cache,
                 flocks, mutex, registry, proc, hist>>

NextTree ==
  \/ \E t \in TxnIds : \E n \in {1, 2} : svn_fs_x__set_contents(1, t, n)
  \/ get_writable_proto_rev_body(1)
  \/ get_writable_proto_rev(1)
  \/ write_rep_header(1)
  \/ \E c \in Contents : svn_stream_write(1, c)
  \/ svn_stream_close(1, "OK", "OK")
  \/ ClearPool(1)
  \/ \E t \in TxnIds : StartTreeRewrite(1, t)
  \/ write_final_rev_node(1)
  \/ write_final_changed_path_info_indexed(1)
  \/ DestroySubpool(1)

SpecTree == InitTree /\ [][NextTree]_vars

\* SpecDelta: revision 0 added a file; thread 1, whose filesystem is
\* configured with some max_linear_deltification and
\* max_deltification_walk, commits change after change to it.
InitDelta ==
  /\ current = 0
  /\ revs = [r \in 0..MaxHistory |->
               IF r = 0
               THEN FileRev(0, [revision |-> 0, base_revision |-> 0 - 1])
               ELSE NoRev]
  /\ txn_current = 0
  /\ txns = [t \in TxnIds |-> NoTxnFiles]
  /\ flocks = [write |-> 0, txncur |-> 0, proto |-> [t \in TxnIds |-> 0]]
  /\ rep_cache = {}
  /\ mutex = [p \in Procs |-> [write |-> 0, txncur |-> 0]]
  /\ registry = [p \in Procs |-> <<>>]
  /\ \E l \in {1, 2, 4} : \E k \in {3, 1023} :
       th = [w \in Workers |->
               IF w = 1
               THEN [max_linear_deltification |-> l,
                     max_deltification_walk |-> k] @@ Idle
               ELSE [max_linear_deltification |-> 0,
                     max_deltification_walk |-> 0] @@ Idle]
  /\ proc = <<1, 1>>
  /\ hist = [current0 |-> current, minted |-> <<>>, assigned |-> <<>>,
             chosen |-> [rep |-> NoBase, candidate |-> NoBase,
                         maybe_shared_rep |-> FALSE]]

NextDelta ==
  \E w \in Workers : \E shared \in (0 - 1)..(current - 1) :
    CommitFileChange(w, shared)

SpecDelta == InitDelta /\ [][NextDelta]_vars

\* SpecChanges: thread 1 has begun transaction 0; it appends change
\* records to the changes log, then folds the log, verifies the moves,
\* writes the final changes and reads them back.
InitChanges ==
  /\ current = 0
  /\ revs = [r \in Revs |-> IF r <= current THEN BaseRev ELSE NoRev]
  /\ txn_current = 1
  /\ txns = [t \in TxnIds |->
               IF t = 0
               THEN [log |-> <<>>, final_changes |-> <<>>]
                      @@ FreshTxn(1, current,
                                  CHOOSE src \in RootNodeRevs(current) :
                                    src.copyfrom_rev = 0 - 1)
               ELSE NoTxnFiles]
  /\ flocks = [write |-> 0, txncur |-> 0, proto |-> [t \in TxnIds |-> 0]]
  /\ rep_cache = {}
  /\ mutex = [p \in Procs |-> [write |-> 0, txncur |-> 0]]
  /\ registry = [p \in Procs |-> <<>>]
  /\ th = [w \in Workers |->
             [changed_paths |-> EmptyChanges,
              read_changes |-> EmptyChanges, deletions |-> <<>>] @@ Idle]
  /\ proc = <<1, 1>>
  /\ hist = [current0 |-> current, minted |-> <<0>>, assigned |-> <<>>]

NextChanges ==
  \/ \E w \in Workers : \E t \in TxnIds : \E path \in Paths :
       \E shape \in ChangeShapes : svn_fs_x__add_change(w, t, path, shape)
  \/ \E w \in Workers : \E t \in TxnIds : svn_fs_x__txn_changes_fetch(w, t)
  \/ \E w \in Workers : verify_moves(w)
  \/ \E w \in Workers : write_final_changed_path_info(w)
  \/ \E w \in Workers : svn_fs_x__paths_changed(w)

SpecChanges == InitChanges /\ [][NextChanges]_vars

\* SpecChangesLive: the thread goes on with the call it is in (commit_body
\* runs from one statement to the next)
SpecChangesLive == SpecChanges /\ WF_vars(NextChanges)

\* SpecProps: thread 1 has created transaction 0; it gives it the
\* properties of svn_fs_x__begin_txn, changes properties and writes the
\* final revision properties.
InitProps ==
  /\ current = 0
  /\ revs = [r \in Revs |->
               [revprops |-> NoProps] @@ (IF r <= current THEN BaseRev
                                                          ELSE NoRev)]
  /\ txn_current = 1
  /\ txns = [t \in TxnIds |->
               IF t = 0
               THEN [props_exists |-> FALSE, props |-> NoProps,
                     props_final_exists |-> FALSE, props_final |-> NoProps]
                      @@ FreshTxn(1, current,
                                  CHOOSE src \in RootNodeRevs(current) :
                                    src.copyfrom_rev = 0 - 1)
               ELSE NoTxnFiles]
  /\ flocks = [write |-> 0, txncur |-> 0, proto |-> [t \in TxnIds |-> 0]]
  /\ rep_cache = {}
  /\ mutex = [p \in Procs |-> [write |-> 0, txncur |-> 0]]
  /\ registry = [p \in Procs |-> <<>>]
  /\ th = [w \in Workers |->
             [txnprops |-> NoProps, now |-> 0, path |-> "none"] @@ Idle]
  /\ proc = <<1, 1>>
  /\ hist = [current0 |-> current, minted |-> <<0>>, assigned |-> <<>>,
             clock |-> 1]

NextProps ==
  \/ \E w \in Workers : \E t \in TxnIds :
       \E flags \in SUBSET {"check-ood", "check-locks", "client-date"} :
         \E now \in Times : svn_fs_x__begin_txn(w, t, flags, now)
  \/ \E w \in Workers : \E t \in TxnIds :
       \E value \in ClientDates \cup {NoValue} :
         svn_fs_x__change_txn_prop(w, t, SVN_PROP_REVISION_DATE, value)
  \/ \E w \in Workers : \E t \in TxnIds :
       \E value \in {<<"fix">>, NoValue} :
         svn_fs_x__change_txn_prop(w, t, SVN_PROP_REVISION_LOG, value)
  \/ \E w \in Workers : \E t \in TxnIds : \E now \in Times :
       write_final_revprop(w, t, now)
  \/ \E w \in Workers : MoveRevprops(w)

SpecProps == InitProps /\ [][NextProps]_vars

\* SpecCounter: the txn-current file as text.  It holds the number the
\* repository was created with or one that earlier begins have written;
\* two threads take a transaction id each.
InitCounter ==
  /\ current = 0
  /\ revs = [r \in Revs |-> IF r <= current THEN BaseRev ELSE NoRev]
  /\ txn_current \in {<<"0", "\n">>, <<"1">>, <<"z">>}
  /\ txns = [t \in TxnIds |-> NoTxnFiles]
  /\ flocks = [write |-> 0, txncur |-> 0, proto |-> [t \in TxnIds |-> 0]]
  /\ rep_cache = {}
  /\ mutex = [p \in Procs |-> [write |-> 0, txncur |-> 0]]
  /\ registry = [p \in Procs |-> <<>>]
  /\ th = [w \in Workers |-> Idle]
  /\ proc \in Layouts
  /\ hist = [current0 |-> current, minted |-> <<>>, assigned |-> <<>>,
             txn_current0 |-> txn_current]

NextCounter ==
  \/ \E w \in Workers : \E rev \in Revs : StartBeginFile(w, rev)
  \/ LockSteps
  \/ \E w \in Workers : ReadTxnCurrentFile(w)
  \/ \E w \in Workers : WriteTxnCurrentFile(w)

SpecCounter == InitCounter /\ [][NextCounter]_vars

\* ------------------------------------------------------------- properties
\* thread W takes a step of its running call (a crash of its process and
\* the caller's ClearPool end the call instead)
Continues(w) == th'[w] # th[w] /\ th'[w].op = th[w].op

\* the commits that have written `current', in the order of their writes
Assigned == hist.assigned

\* C1: of two transactions with the same base revision B at most one is
\* committed, and it creates revision B + 1; a commit whose transaction is
\* based on youngest passes the out-of-date check, and once the other
\* transaction has been committed the check of the remaining one, from
\* whatever thread or process, ends in TxnOutOfDate (a failure to read
\* `current' aside).
C1_OneOfTwoCommits ==
  /\ [](\A i, j \in 1..Len(Assigned) :
          /\ Assigned[i].new_rev = Assigned[i].base + 1
          /\ i # j => Assigned[i].base # Assigned[j].base)
  /\ [][\A w \in Workers :
          At(w, "c_youngest") /\ Continues(w) /\ th'[w].err # "IO"
          => IF \E i \in 1..Len(Assigned) :
                  Assigned[i].base = txns[th[w].txn].base_rev
             THEN th'[w].err = "TxnOutOfDate"
             ELSE txns[th[w].txn].base_rev = current => th'[w].err = "OK"]_vars

\* two transactions of base B: one thread has committed one of them, the
\* other thread's commit of the other one got TxnOutOfDate
C1_Witness ==
  \E w, v \in Workers :
    /\ w # v
    /\ th[v].op = "commit" /\ th[v].committed
    /\ th[w].op = "commit" /\ th[w].err = "TxnOutOfDate"
    /\ th[w].txn # th[v].txn
    /\ \E i \in 1..Len(Assigned) :
         /\ Assigned[i].txn = th[v].txn
         /\ Assigned[i].base = txns[th[w].txn].base_rev

\* C2: youngest equals its initial value plus the number of successful
\* commits; the i-th successful commit returns the youngest it read under
\* the write lock plus 1, which is also the youngest at the moment of its
\* write plus 1, so the revisions assigned are R + 1, R + 2, ... without a
\* gap or a repetition.
C2_YoungestCountsCommits ==
  /\ current = hist.current0 + Len(Assigned)
  /\ \A i \in 1..Len(Assigned) :
       /\ Assigned[i].new_rev = Assigned[i].old_rev + 1
       /\ Assigned[i].new_rev = Assigned[i].youngest + 1
       /\ Assigned[i].new_rev = hist.current0 + i

\* two commits have succeeded, and a third attempt has failed
C2_Witness ==
  /\ Len(Assigned) = 2
  /\ \E w \in Workers : th[w].op = "commit" /\ th[w].err # "OK"

\* C3: `current' changes only in the step of a commit that writes it
\* successfully; a step in which a commit that has not written `current'
\* fails, is abandoned or dies with its process leaves `current' as it was.
C3_FailedCommitKeepsCurrent ==
  [][/\ current' # current
        => \E w \in Workers : /\ At(w, "c_current") /\ th[w].err = "OK"
                              /\ th'[w].committed /\ th'[w].err = "OK"
     /\ \A w \in Workers :
          /\ th[w].op = "commit" /\ ~th[w].committed /\ th[w].err = "OK"
          /\ th'[w].err # "OK" \/ th'[w].op # "commit"
          => current' = current]_vars

\* a commit has failed after its revision, index and revprop files were all
\* in place, and `current' still names the revision before
C3_Witness ==
  \E w \in Workers :
    /\ th[w].op = "commit" /\ th[w].err = "IO" /\ ~th[w].committed
    /\ current + 1 \in Revs
    /\ revs[current + 1] = BaseRev
    /\ current = hist.current0 + Len(Assigned)

\* C4: every revision up to the one `current' names has its rev file, its
\* l2p and p2l index and its revprops file in place, in every state.
C4_PublishedRevsComplete ==
  \A r \in Revs : r <= current => revs[r] = BaseRev

\* a commit has published a revision and the commit of the next one has
\* stopped half way: its index files are in place, its revprops are not
C4_Witness ==
  /\ current > hist.current0
  /\ current + 1 \in Revs
  /\ revs[current + 1].l2p /\ revs[current + 1].rev
  /\ ~revs[current + 1].props
  /\ \A w \in Workers : th[w].op # "commit"

\* C5: when commit_body has read a youngest that differs from base_rev the
\* step ends in TxnOutOfDate and leads straight to the release of the
\* write lock; neither this step nor any later step of the failed commit
\* changes a file, `current' or the registry, and the transaction's
\* directory is still there.
C5_OutOfDateTouchesNothing ==
  [][\A w \in Workers :
       /\ /\ At(w, "c_youngest") /\ Continues(w) /\ th'[w].err # "IO"
          /\ txns[th[w].txn].base_rev # current
          => /\ th'[w].err = "TxnOutOfDate" /\ th'[w].pc = "destroy"
             /\ UNCHANGED <<diskVars, registry>>
             /\ flocks'.proto = flocks.proto
       /\ /\ th[w].op = "commit" /\ th[w].err = "TxnOutOfDate"
          /\ th'[w] # th[w]
          => /\ UNCHANGED diskVars
             /\ txns[th[w].txn].dir /\ txns[th[w].txn].root
             /\ th'[w].op = "commit" => UNCHANGED registry]_vars

\* a commit has returned TxnOutOfDate to its caller
C5_Witness ==
  \E w \in Workers :
    /\ th[w].op = "commit" /\ th[w].err = "TxnOutOfDate" /\ At(w, "ret")
    /\ txns[th[w].txn].base_rev # current
    /\ txns[th[w].txn].dir /\ ProtoExists(th[w].txn)

\* the step in which `current' changes is the successful write of one
\* commit that has not written it before, from old_rev to old_rev + 1
WritesCurrentOnce ==
  current' # current
  => \E w \in Workers :
       /\ At(w, "c_current") /\ ~th[w].committed /\ th'[w].committed
       /\ current = th[w].old_rev /\ current' = th[w].old_rev + 1
       /\ \A v \in Workers \ {w} : th'[v] = th[v]

\* C6 as the specification words it: a commit writes `current' once, from
\* old_rev to old_rev + 1, and after that write it modifies nothing on disk
\* and nothing in the shared registry.
C6_NothingAfterCurrent ==
  [][/\ WritesCurrentOnce
     /\ \A w \in Workers :
          th[w].op = "commit" /\ th[w].committed /\ Continues(w)
          => UNCHANGED <<diskVars, registry>>]_vars

\* C6, amended: a commit writes `current' once, from old_rev to
\* old_rev + 1, and that is its last change of the published revisions:
\* after it the commit leaves `current', every revision's files, the
\* transaction counter and every other transaction alone; what it still
\* does is purge its own transaction (registry entry, directory, proto-rev
\* and rev-lock file) and insert its reps into the rep-cache.
C6_CurrentIsLastPublishedWrite ==
  [][/\ WritesCurrentOnce
     /\ \A w \in Workers :
          th[w].op = "commit" /\ th[w].committed /\ Continues(w)
          => /\ UNCHANGED <<current, revs, txn_current>>
             /\ \A t \in TxnIds \ {th[w].txn} : txns'[t] = txns[t]
             /\ rep_cache' \in {rep_cache, rep_cache \cup {th[w].txn}}
             /\ \A p \in Procs :
                  registry'[p] = IF p = proc[w] /\ At(w, "purge")
                                 THEN free_shared_txn(registry[p], th[w].txn)
                                 ELSE registry[p]]_vars

\* a successful commit has purged its transaction and written the rep-cache
C6_Witness ==
  \E w \in Workers :
    /\ th[w].op = "commit" /\ th[w].committed /\ At(w, "ret")
    /\ th[w].txn \in rep_cache
    /\ ~txns[th[w].txn].dir /\ ~ProtoExists(th[w].txn)
    /\ RegIndex(registry[proc[w]], th[w].txn) = 0

\* thread V holds the proto-rev lock of transaction T through an open
\* rev-lock file handle
HoldsProtoLock(v, t) == th[v].lockcookie /\ th[v].txn = t

C8_BeingWrittenIffLocked ==
  \A p \in Procs : \A t \in TxnIds :
    RegIndex(registry[p], t) # 0
    => (being_written(registry[p], t)
        <=> \E w \in Workers : proc[w] = p /\ flocks.proto[t] = w)

\* the positions of a call at which with_some_lock_file has returned
AfterLock == {"ret", "b_mkdir", "b_files", "c_repcache"}

\* the positions inside the body that with_some_lock_file runs
InBody == {"b_read", "b_write", "c_youngest", "c_verify", "getproto",
           "openproto", "c_write", "c_shard", "c_l2p", "c_p2l", "c_move",
           "c_unlock", "c_revprop", "c_current", "purge", "p_dir", "p_files"}

\* C9: once with_some_lock_file has returned the caller no longer holds
\* the file lock and has_write_lock is FALSE; has_write_lock is TRUE only
\* while the write lock is held; the body runs only with the file lock.
C9_LockReleasedOnReturn ==
  \A w \in Workers :
    th[w].op \in {"commit", "begin"}
    => /\ th[w].pc \in AfterLock
          => flocks[LockOf(th[w].op)] # w /\ ~th[w].has_write_lock
       /\ th[w].has_write_lock => th[w].op = "commit" /\ flocks.write = w
       /\ th[w].pc \in InBody => flocks[LockOf(th[w].op)] = w

\* thread W has been given a transaction id by get_and_increment_txn_key_body
HasTxnId(w) ==
  /\ th[w].op = "begin" /\ th[w].err = "OK"
  /\ th[w].pc \in {"destroy", "b_mkdir", "b_files", "ret"}

\* C10: the counter file holds its initial value (0) plus the number of ids
\* handed out; the i-th call under the txn-counter lock was given the value
\* i - 1 it read, one more than the call before it; two begins never have
\* the same id.
C10_TxnIdsUnique ==
  /\ txn_current = Len(hist.minted)
  /\ \A i \in 1..Len(hist.minted) : hist.minted[i] = i - 1
  /\ \A w \in Workers :
       HasTxnId(w)
       => /\ \E i \in 1..Len(hist.minted) : hist.minted[i] = th[w].txn
          /\ \A v \in Workers \ {w} : HasTxnId(v) => th[v].txn # th[w].txn

\* two begins of different processes have their ids at the same time
C10_Witness ==
  \E w, v \in Workers :
    /\ proc[w] # proc[v]
    /\ HasTxnId(w) /\ HasTxnId(v)
    /\ th[w].txn + 1 = th[v].txn
    /\ txn_current = 2

\* list LST without the object of transaction T
WithoutTxn(lst, t) == SelectSeq(lst, LAMBDA e : e.txn_id # t)

\* C11: when an abort has returned without error the transaction's
\* directory, proto-rev file and rev-lock file are gone and the registry
\* of the aborting process has no object for it; opening its name gives
\* NoSuchTransaction and the list of transactions does not have it.  A
\* step of an abort leaves the files of every other transaction, their
\* registry objects, the revisions and both counters as they were.
C11_AbortRemovesOnlyItsTxn ==
  /\ [](\A w \in Workers :
          th[w].op = "abort" /\ At(w, "ret") /\ th[w].err = "OK"
          => /\ ~txns[th[w].txn].dir /\ ~ProtoExists(th[w].txn)
             /\ ~txns[th[w].txn].lock
             /\ RegIndex(registry[proc[w]], th[w].txn) = 0
             /\ open_txn_err(th[w].txn) = "NoSuchTransaction"
             /\ th[w].txn \notin list_transactions)
  /\ [][\A w \in Workers :
          th[w].op = "abort" /\ Continues(w)
          => /\ \A t \in TxnIds \ {th[w].txn} : txns'[t] = txns[t]
             /\ \A p \in Procs : WithoutTxn(registry'[p], th[w].txn)
                                   = WithoutTxn(registry[p], th[w].txn)
             /\ UNCHANGED <<current, revs, txn_current, rep_cache>>]_vars

\* an abort has returned without error while the other transaction, which
\* has a registry object and data in its proto-rev file, is still there
C11_Witness ==
  \E w \in Workers : \E t \in TxnIds :
    /\ th[w].op = "abort" /\ At(w, "ret") /\ th[w].err = "OK"
    /\ t # th[w].txn
    /\ txns[t].dir /\ txns[t].proto > 0
    /\ RegIndex(registry[proc[w]], t) # 0

\* C12: when a begin on revision R has returned without error its
\* transaction has an empty proto-rev file, a rev-lock file, an empty
\* changes file, the next-ids file "0 0\n" and a root node-rev whose
\* predecessor is the root of R, whose predecessor_count is one more than
\* that root's and which has no copyfrom.
C12_FreshTxnFiles ==
  \A w \in Workers :
    th[w].op = "begin" /\ At(w, "ret") /\ th[w].err = "OK"
    => LET f == txns[th[w].txn] IN
       /\ f.dir /\ f.root
       /\ f.proto = 0 /\ f.lock /\ f.changes = 0
       /\ f.next_ids = <<"0", " ", "0", "\n">>
       /\ f.noderev.copyfrom_rev = 0 - 1
       /\ \E src \in RootNodeRevs(f.base_rev) :
            /\ f.noderev.predecessor_id = src.id
            /\ f.noderev.predecessor_count = src.predecessor_count + 1

\* a begin on revision 1 has returned; its root node-rev is the second
\* successor in the root's history
C12_Witness ==
  \E w \in Workers :
    /\ th[w].op = "begin" /\ At(w, "ret") /\ th[w].err = "OK"
    /\ txns[th[w].txn].base_rev = 1
    /\ txns[th[w].txn].noderev.predecessor_count = 2

\* the numbers of SEQ are strictly increasing (hence never repeated)
StrictlyIncreasing(seq) ==
  \A i, j \in 1..Len(seq) : i < j => seq[i] < seq[j]

\* C13: per transaction the node ids handed out are strictly increasing,
\* and so are the copy ids and the item indexes; the first item index of a
\* transaction whose item-index file is empty is
\* SVN_FS_X__ITEM_INDEX_FIRST_USER; a step that hands out a node id leaves
\* the next copy id of the next-ids file as it was, and a step that hands
\* out a copy id leaves the next node id as it was.
C13_ReservedIdsIncrease ==
  /\ [](\A t \in TxnIds :
          /\ StrictlyIncreasing(hist.node_ids[t])
          /\ StrictlyIncreasing(hist.copy_ids[t])
          /\ StrictlyIncreasing(hist.item_indexes[t])
          /\ hist.items0 = <<>> /\ hist.item_indexes[t] # <<>>
             => hist.item_indexes[t][1] = SVN_FS_X__ITEM_INDEX_FIRST_USER)
  /\ [][\A t \in TxnIds :
          /\ hist'.node_ids[t] # hist.node_ids[t]
             => /\ read_next_ids(txns'[t].next_ids).copy_id
                     = read_next_ids(txns[t].next_ids).copy_id
                /\ read_next_ids(txns'[t].next_ids).node_id
                     > hist'.node_ids[t][Len(hist'.node_ids[t])]
                /\ hist'.copy_ids[t] = hist.copy_ids[t]
          /\ hist'.copy_ids[t] # hist.copy_ids[t]
             => /\ read_next_ids(txns'[t].next_ids).node_id
                     = read_next_ids(txns[t].next_ids).node_id
                /\ read_next_ids(txns'[t].next_ids).copy_id
                     > hist'.copy_ids[t][Len(hist'.copy_ids[t])]
                /\ hist'.node_ids[t] = hist.node_ids[t]]_vars

\* a transaction has handed out the node ids z and 10 (base 36), a copy id
\* in between, and item indexes that went from one digit to two
C13_Witness ==
  \E t \in TxnIds :
    /\ hist.node_ids[t] = <<35, 36>>
    /\ Len(hist.copy_ids[t]) = 2
    /\ hist.item_indexes[t] = <<9, 10>>

\* the reps that are physically in the proto-rev file of the transaction
PhysicalReps(t) ==
  {txns[t].protorev[i] : i \in 1..Len(txns[t].protorev)}

PropsTypes == {"file_props", "dir_props"}

\* node N's rep R (a data rep with FILE, else a prop rep) is stored once:
\* it is a rep of an older revision or the one rep of that content and
\* kind in the proto-rev file
StoredOnce(t, r, types) ==
  \/ r.change_set[1] = "rev" /\ r.change_set[2] <= current
  \/ \E x \in PhysicalReps(t) :
       /\ x.number = r.number /\ x.sha1 = r.sha1 /\ x.type \in types
       /\ \A y \in PhysicalReps(t) :
            y.sha1 = r.sha1 /\ y.type \in types => y = x

ChosenChain == svn_fs_x__rep_chain_length(revs, hist.chosen.rep)

ChainLimit == 2 * th[1].max_linear_deltification + 2

\* C15 as claimed: the rep choose_delta_base returns has a delta chain of
\* at most 2 * max_linear_deltification + 2 reps.
C15_ChainWithinLimit ==
  hist.chosen.rep # NoBase => ChosenChain <= ChainLimit

\* C15 (amended): when the walk of choose_delta_base met a rep of an
\* older revision, the rep it returns has a delta chain of fewer than
\* 2 * max_linear_deltification + 2 reps, and it returns none when the
\* candidate's chain has that many or more; when the walk met no such rep
\* it returns the candidate whatever its chain length.
C15_SharedChainWithinLimit ==
  LET c == hist.chosen IN
  /\ c.maybe_shared_rep /\ c.rep # NoBase => ChosenChain < ChainLimit
  /\ c.maybe_shared_rep
       /\ svn_fs_x__rep_chain_length(revs, c.candidate) >= ChainLimit
     => c.rep = NoBase
  /\ ~c.maybe_shared_rep => c.rep = c.candidate

\* the chooser met a shared rep and returned none because the candidate's
\* chain had reached the limit
C15_Witness ==
  /\ hist.chosen.maybe_shared_rep
  /\ hist.chosen.candidate # NoBase
  /\ hist.chosen.rep = NoBase
  /\ svn_fs_x__rep_chain_length(revs, hist.chosen.candidate) >= ChainLimit

\* the folded changes of thread 1, once verify_moves has run on them
Verified == th[1].pc \in {"ch_verified", "ch_failed", "crashed"}
              /\ th[1].err # "Corrupt"

\* the paths of the folded changes that are moves with a copyfrom path
Moves(changed_paths) ==
  {p \in Paths : /\ changed_paths[p] # NoChange
                 /\ changed_paths[p].change_kind \in MoveKinds
                 /\ changed_paths[p].copyfrom_path # NoPath}

\* two moves of the folded changes have the same source
SameSource(changed_paths) ==
  \E p, q \in Moves(changed_paths) :
    p # q /\ changed_paths[p].copyfrom_path = changed_paths[q].copyfrom_path

\* the move at path M has a deletion at or above its source
SourceDeleted(changed_paths, m) ==
  \E d \in Paths :
    /\ changed_paths[d] # NoChange
    /\ changed_paths[d].change_kind \in DeletionKinds
    /\ svn_dirent_is_ancestor(d, changed_paths[m].copyfrom_path)

\* C16 as claimed: when the folded changes hold a move whose source no
\* deletion of the change set covers (and no two moves share a source),
\* verify_moves returns IncompleteMove.
C16_IncompleteMoveRejected ==
  LET f == th[1].changed_paths IN
  /\ Verified
  /\ ~SameSource(f)
  /\ \E m \in Moves(f) : ~SourceDeleted(f, m)
  => th[1].err = "IncompleteMove"

\* C17: when two moves of the folded changes have the same copyfrom path
\* verify_moves returns AmbiguousMove; when the sources of the moves are
\* pairwise different paths, also a path and a path below it, it does not.
C17_AmbiguousMoveRejected ==
  LET f == th[1].changed_paths IN
  Verified =>
    /\ SameSource(f) => th[1].err = "AmbiguousMove"
    /\ ~SameSource(f) => th[1].err # "AmbiguousMove"

\* the moves to /a and to /a/b both come from /ab: AmbiguousMove
C17_Witness ==
  LET f == th[1].changed_paths IN
  /\ Verified
  /\ Moves(f) = {PathA, PathAB}
  /\ f[PathA].copyfrom_path = PathAX /\ f[PathAB].copyfrom_path = PathAX
  /\ th[1].err = "AmbiguousMove"

\* the log of transaction 0 has been folded without error by thread 1
Folded == th[1].pc \in {"ch_fetched", "ch_verified", "ch_failed", "crashed"}
            /\ th[1].err # "Corrupt"

\* C18 as claimed: the folded changes have no entry below a path whose
\* entry is a delete, replace or movereplace.
C18_NoEntryBelowDeletion ==
  LET f == th[1].changed_paths IN
  Folded =>
    \A p, q \in Paths :
      /\ f[p] # NoChange /\ f[p].change_kind \in DeletionKinds
      /\ svn_dirent_is_child(p, q)
      => f[q] = NoChange

\* C18 (amended): an entry of the folded changes below the path of a
\* delete, replace or movereplace record of the log comes from a record
\* that is later in the log.
C18_NoOlderEntryBelowDeletion ==
  LET f == th[1].changed_paths
      log == txns[0].log
  IN Folded =>
       \A i \in 1..Len(log) : \A q \in Paths :
         /\ log[i].change_kind \in DeletionKinds
         /\ svn_dirent_is_child(log[i].path, q)
         /\ f[q] # NoChange
         => \E j \in (i + 1)..Len(log) : log[j].path = q

\* /a/b was added and then /a deleted: the folded changes are the delete
\* of /a alone
C18_Witness ==
  LET f == th[1].changed_paths
      log == txns[0].log
  IN /\ Folded
     /\ Len(log) = 2
     /\ log[1].path = PathAB /\ log[1].change_kind = "add"
     /\ log[2].path = PathA /\ log[2].change_kind = "delete"
     /\ f[PathA].change_kind = "delete"
     /\ f[PathAB] = NoChange /\ f[PathAX] = NoChange

Published(t) == \E i \in 1..Len(hist.assigned) : hist.assigned[i].txn = t

\* C20: the rep-cache changes only by the step of a commit whose body
\* returned without error, after `current' was set to its revision and
\* after its write lock (mutex and file lock) was released; the step
\* inserts the reps of that commit.  So the rep-cache holds reps of
\* published transactions only, and a failed commit inserts nothing.
C20_RepCacheAfterSuccessfulCommit ==
  /\ [](\A t \in rep_cache : Published(t))
  /\ [][rep_cache' # rep_cache =>
          \E w \in Workers :
            /\ th[w].op = "commit" /\ At(w, "c_repcache")
            /\ th[w].err = "OK" /\ th[w].committed
            /\ Published(th[w].txn)
            /\ flocks.write # w /\ mutex[proc[w]].write # w
            /\ ~th[w].has_write_lock
            /\ rep_cache' = rep_cache \cup {th[w].txn}
            /\ th'[w].pc = "ret"]_vars

\* one commit has inserted its reps and returned, and the commit of another
\* transaction has failed and returned with nothing inserted
C20_Witness ==
  \E w, v \in Workers :
    /\ th[w].op = "commit" /\ At(w, "ret") /\ th[w].err = "OK"
    /\ th[w].txn \in rep_cache
    /\ th[v].op = "commit" /\ At(v, "ret") /\ th[v].err # "OK"
    /\ th[v].txn # th[w].txn /\ th[v].txn \notin rep_cache

\* the marker properties of a transaction
Markers == {SVN_FS__PROP_TXN_CHECK_OOD, SVN_FS__PROP_TXN_CHECK_LOCKS,
            SVN_FS__PROP_TXN_CLIENT_DATE}

\* the revision properties thread 1 has moved into place
FinalRevprops == revs[th[1].new_rev].revprops

\* C21 as claimed: with the client-date marker the final revision
\* properties have the svn:date of the transaction, without it the commit
\* time; they have no marker property.
C21_ClientDateKept ==
  th[1].pc = "rp_done" =>
    /\ FinalRevprops[SVN_PROP_REVISION_DATE] =
         IF th[1].txnprops[SVN_FS__PROP_TXN_CLIENT_DATE] # NoValue
         THEN th[1].txnprops[SVN_PROP_REVISION_DATE]
         ELSE svn_time_to_cstring(th[1].now)
    /\ \A m \in Markers : FinalRevprops[m] = NoValue

\* C21 (amended): when the client-date marker has the value "1" (svn:date
\* was changed after the transaction began) the final revision properties
\* have the svn:date of the transaction; without the marker, or with the
\* marker at "0", they have the commit time.  They have no marker
\* property, and every other property is that of the transaction.
C21_SuppliedDateKept ==
  th[1].pc = "rp_done" =>
    /\ FinalRevprops[SVN_PROP_REVISION_DATE] =
         IF th[1].txnprops[SVN_FS__PROP_TXN_CLIENT_DATE] = <<"1">>
         THEN th[1].txnprops[SVN_PROP_REVISION_DATE]
         ELSE svn_time_to_cstring(th[1].now)
    /\ \A m \in Markers : FinalRevprops[m] = NoValue
    /\ FinalRevprops[SVN_PROP_REVISION_LOG] =
         th[1].txnprops[SVN_PROP_REVISION_LOG]

\* a transaction begun with all three flags whose svn:date the client set
\* has been committed at time 2 with the client's date
C21_Witness ==
  /\ th[1].pc = "rp_done" /\ th[1].now = 2
  /\ \A m \in Markers : th[1].txnprops[m] # NoValue
  /\ FinalRevprops[SVN_PROP_REVISION_DATE] = svn_time_to_cstring(0)

\* the character of BUF at position I; the content is followed by a NUL
CharAt(buf, i) == IF i <= Len(buf) THEN buf[i] ELSE NUL

\* the position of the first character of BUF at or after FROM that is
\* not a base-36 digit
NumberEnd(buf, from) ==
  CHOOSE i \in from..(Len(buf) + 1) :
    /\ ~IsDigit(CharAt(buf, i), 36)
    /\ \A j \in from..(i - 1) : IsDigit(buf[j], 36)

\* the next-ids file BUF lacks the space after its first number or the
\* newline after its second number
Malformed(buf) ==
  \/ CharAt(buf, NumberEnd(buf, 1)) # " "
  \/ CharAt(buf, NumberEnd(buf, NumberEnd(buf, 1) + 1)) # "\n"

\* C22: reading the next-ids file gives Corrupt exactly when the space
\* after the first number or the newline after the second is missing; a
\* reservation on such a file fails with Corrupt, hands out no id and
\* leaves the file as it is; and after a reservation that stored
\* (node_id, copy_id) the file reads back as these two numbers.
C22_CorruptNextIds ==
  /\ [](\A t \in TxnIds :
          read_next_ids(txns[t].next_ids).err = "Corrupt"
            <=> Malformed(txns[t].next_ids))
  /\ [][\A t \in TxnIds :
          /\ Malformed(txns[t].next_ids)
             => /\ txns'[t].next_ids = txns[t].next_ids
                /\ hist'.node_ids[t] = hist.node_ids[t]
                /\ hist'.copy_ids[t] = hist.copy_ids[t]
                /\ \A w \in Workers :
                     th'[w] # th[w] /\ txns' = txns
                     /\ hist'.item_indexes = hist.item_indexes
                     => th'[w].err = "Corrupt"
          /\ hist'.node_ids[t] # hist.node_ids[t]
             => read_next_ids(txns'[t].next_ids) =
                  [err |-> "OK",
                   node_id |-> read_next_ids(txns[t].next_ids).node_id + 1,
                   copy_id |-> read_next_ids(txns[t].next_ids).copy_id]
          /\ hist'.copy_ids[t] # hist.copy_ids[t]
             => read_next_ids(txns'[t].next_ids) =
                  [err |-> "OK",
                   node_id |-> read_next_ids(txns[t].next_ids).node_id,
                   copy_id |-> read_next_ids(txns[t].next_ids).copy_id + 1]
       ]_vars

\* transaction 0 has stored the numbers 10 and z (base 36); the next
\* write has failed and left the file without its newline, and the
\* reservation after it has failed with Corrupt
C22_Witness ==
  \E w \in Workers :
    /\ th[w].err = "Corrupt"
    /\ txns[0].next_ids = <<"1", "1", " ", "z">>
    /\ hist.node_ids[0] = <<35>>

\* the txn-current file ends with a newline
HasNewline(buf) == buf # <<>> /\ buf[Len(buf)] = "\n"

\* C23 as claimed: a begin that reads a txn-current file without trailing
\* newline fails with Corrupt, mints no id and leaves the file; a begin
\* that reads a file with the newline gets the number last written.
C23_MissingNewlineIsCorrupt ==
  [][\A w \in Workers :
       At(w, "b_read") /\ th'[w] # th[w]
       => IF HasNewline(txn_current)
          THEN th'[w].err = "OK"
               => th'[w].txn = IF hist.minted = <<>>
                               THEN svn__base36toui64(hist.txn_current0,
                                                      1).value
                               ELSE hist.minted[Len(hist.minted)] + 1
          ELSE /\ th'[w].err # "OK" /\ th'[w].pc = "destroy"
               /\ txn_current' = txn_current /\ hist' = hist]_vars

\* C24 as claimed: verify_moves, once called on the folded changes,
\* returns: with success, AmbiguousMove or IncompleteMove.
C24_VerifyMovesReturns ==
  (th[1].pc = "ch_fetched")
    ~> (/\ th[1].pc \in {"ch_verified", "ch_failed"}
        /\ th[1].err \in {"OK", "AmbiguousMove", "IncompleteMove"})

\* C25 as claimed: when a commit has returned with an error, its
\* transaction is not marked being_written unless a thread of the process
\* holds the proto-rev lock, the commit holds no proto-rev lock, and the
\* proto-rev file (empty before the commit in this specification) has
\* nothing of what the commit appended.
C25_FailedCommitCleansUp ==
  \A w \in Workers :
    th[w].op = "commit" /\ At(w, "ret") /\ th[w].err # "OK"
    => LET t == th[w].txn
           p == proc[w]
       IN /\ flocks.proto[t] # w /\ ~th[w].lockcookie
          /\ RegIndex(registry[p], t) # 0 /\ being_written(registry[p], t)
             => \E v \in Workers : proc[v] = p /\ flocks.proto[t] = v
          /\ ProtoExists(t) => txns[t].proto = 0

\* C26 as claimed: when the caller of a rep write stream that holds the
\* proto-rev lock clears the stream's pool (the stream was abandoned or a
\* step of it has failed), the proto-rev file is back at rep_offset, the
\* thread no longer holds the lock and being_written is FALSE.
C26_RepStreamCleansUp ==
  [][\A w \in Workers :
       LET t == th[w].txn
           p == proc[w]
       IN /\ th[w].op = "rep" /\ th[w].lockcookie
          /\ th[w].pc \in {"ret", "r_open"} /\ th'[w].pc = "idle"
          /\ RegIndex(registry'[p], t) # 0
          => /\ flocks'.proto[t] # w
             /\ ~being_written(registry'[p], t)
             /\ txns'[t].proto = th[w].offset]_vars

\* the step of thread W is the close of its rep write stream
ClosesStream(w) ==
  /\ th[w].op = "rep" /\ th[w].pc = "r_open" /\ th'[w].pc = "ret"
  /\ "node" \in DOMAIN th[w]
  /\ txns' # txns \/ th'[w].lookup \/ ~th[w].rep_sharing_allowed

\* the representations a close can share with: those of the rep-cache db
\* and those of the SHA-1 files of the transaction
KnownReps(t) == rep_cache \cup txns[t].sha1s

\* C27: when the close of a rep write stream returns without error, rep
\* sharing is enabled, the rep-cache lookup did not fail and a known
\* representation has the SHA-1 of the written content, the
\* proto-rev file is truncated to rep_offset, the item-index file and both
\* proto-indexes are left alone and the node-rev's data rep is that known
\* representation; when none has, the file is what it was plus ENDREP,
\* the item-index counter went up by one and each proto-index got one
\* entry.  In both cases the thread no longer holds the proto-rev lock.
C27_CloseHitAndMiss ==
  [][\A w \in Workers :
       ClosesStream(w) /\ th'[w].err = "OK" /\ th[w].rep_sharing_allowed
       /\ th'[w].warning = "none"
       => LET t == th[w].txn
              n == th[w].node
              f == txns[t]
              g == txns'[t]
              same == {r \in KnownReps(t) :
                         r.sha1 = sha1_digest(th[w].sha1_checksum_ctx)}
          IN /\ IF same # {}
                THEN /\ g.protorev = SubSeq(f.protorev, 1, th[w].offset)
                     /\ g.item_index = f.item_index
                     /\ g.l2p = f.l2p /\ g.p2l = f.p2l
                     /\ g.noderevs[n].data_rep \in same
                ELSE /\ g.protorev = f.protorev \o <<"ENDREP\n">>
                     /\ item_index_read(g.item_index)
                          = item_index_read(f.item_index) + 1
                     /\ Len(g.l2p) = Len(f.l2p) + 1
                     /\ Len(g.p2l) = Len(f.p2l) + 1
                     /\ SubSeq(g.l2p, 1, Len(f.l2p)) = f.l2p
                     /\ SubSeq(g.p2l, 1, Len(f.p2l)) = f.p2l
                     /\ g.noderevs[n].data_rep.number
                          = item_index_read(f.item_index)
             /\ flocks'.proto[t] = 0
             /\ ~being_written(registry'[proc[w]], t)
             /\ ~th'[w].lockcookie]_vars

\* C27 witness: both files of the transaction have got the same content;
\* the first close stored the rep, the second found it and truncated
C27_Witness ==
  /\ txns[0].noderevs[1].data_rep # NoRep
  /\ txns[0].noderevs[2].data_rep = txns[0].noderevs[1].data_rep
  /\ txns[0].noderevs[1].data_rep.change_set = <<"txn", 0>>
  /\ txns[0].protorev = <<"DELTA\n", "y", "ENDREP\n">>
  /\ Len(txns[0].l2p) = 1 /\ Len(txns[0].p2l) = 1
  /\ \A w \in Workers : At(w, "idle")

\* C28: a close whose rep-cache lookup fails with SVN_ERR_FS_CORRUPT or an
\* error of the malfunction category returns that error; one whose lookup
\* fails with another error hands it to the warning callback and goes on
\* as after a miss of the rep-cache; with rep sharing disabled the close
\* never looks up, never warns and never shares
C28_LookupErrors ==
  [][\A w \in Workers :
       ClosesStream(w)
       => LET t == th[w].txn
              n == th[w].node
              e == th'[w].err
              warned == th'[w].warning
              in_db == {r \in rep_cache :
                          r.sha1 = sha1_digest(th[w].sha1_checksum_ctx)}
          IN /\ warned # "none"
                  => /\ warned \in RepCacheErrors
                     /\ warned # "Corrupt" /\ ~InMalfuncCategory(warned)
                     /\ th'[w].lookup
                     /\ e \in {"OK", "IO"}
                     /\ e = "OK"
                          => txns'[t].noderevs[n].data_rep \notin in_db
             /\ e \notin {"OK", "IO"}
                  => /\ e = "Corrupt" \/ InMalfuncCategory(e)
                     /\ th'[w].lookup /\ warned = "none"
                     /\ txns' = txns
             /\ ~th[w].rep_sharing_allowed
                  => /\ ~th'[w].lookup /\ warned = "none"
                     /\ e = "OK" => txns'[t].noderevs[n].data_rep.change_set
                                      = <<"txn", t>>
                                    /\ txns'[t].noderevs[n].data_rep
                                         \notin KnownReps(t)]_vars

\* C28 witness: the rep-cache knows the content but the lookup failed with
\* an error that was only warned about, so the file got a rep of its own
C28_Witness ==
  \E w \in Workers :
    /\ At(w, "ret") /\ th[w].op = "rep" /\ th[w].err = "OK"
    /\ "node" \in DOMAIN th[w]
    /\ th[w].warning = "SqliteBusy"
    /\ th[w].sha1_checksum_ctx = "x"
    /\ rep_cache # {}
    /\ txns[0].noderevs[th[w].node].data_rep.change_set = <<"txn", 0>>


\* the value of the rightmost 1 bit of P: the power of two that divides P
\* with an odd quotient
LowBit(p) == CHOOSE b \in 1..p : p % b = 0 /\ (p \div b) % 2 = 1

\* the representation C29 names for predecessor count P: that of the
\* direct predecessor when the skip distance is below
\* max_linear_deltification, else that of the ancestor at index
\* P - LowBit(P), which is P & (P - 1)
NamedBase(p) ==
  LET walk == LowBit(p)
      hops == IF walk < th[1].max_linear_deltification THEN 1 ELSE walk
  IN revs[p - hops].noderev.data_rep

\* C29 as stated: for the node-rev committed last, with predecessor count
\* p = current, choose_delta_base returned none when the skip distance
\* exceeded max_deltification_walk and the named ancestor's rep otherwise
C29_BaseIsNamedAncestor ==
  current >= 1
    => hist.chosen.rep =
         IF LowBit(current) > th[1].max_deltification_walk
         THEN NoBase ELSE NamedBase(current)

\* C29 amended: as stated, except that none is returned when a node-rev on
\* the walk carries a rep of an older revision and the chain of the named
\* ancestor's rep has 2 * max_linear_deltification + 2 reps or more
C29_BaseIsNamedAncestorUnlessShared ==
  current >= 1
    => LET p == current
           walk == LowBit(p)
           hops == IF walk < th[1].max_linear_deltification THEN 1 ELSE walk
           shared == \E i \in (p - hops)..(p - 1) :
                       revs[i].noderev.data_rep.revision < i
           long == svn_fs_x__rep_chain_length(revs, NamedBase(p))
                     >= 2 * th[1].max_linear_deltification + 2
       IN hist.chosen.rep =
            IF walk > th[1].max_deltification_walk \/ (shared /\ long)
            THEN NoBase ELSE NamedBase(p)

\* C29 witness: with max_linear_deltification = 4 the file has been
\* changed for the 16th time and the base chosen is the rep of revision 0,
\* 16 hops back
C29_Witness ==
  /\ current = 16
  /\ th[1].max_linear_deltification = 4
  /\ th[1].max_deltification_walk = 1023
  /\ hist.chosen.rep = revs[0].noderev.data_rep
  /\ hist.chosen.rep # NoBase


\* the changes C30 says the folder rejects, given the record OLD_CHANGE the
\* folded map has for the path (NoChange: none)
MustReject(old_change, info) ==
  \/ info.node_rev_id = 0 /\ info.change_kind # "reset"
  \/ /\ old_change # NoChange
     /\ \/ /\ info.node_rev_id # 0
           /\ info.node_rev_id # old_change.node_rev_id
           /\ old_change.change_kind # "delete"
        \/ /\ old_change.change_kind = "delete"
           /\ info.change_kind \notin {"add", "replace", "move",
                                       "movereplace", "reset"}
        \/ /\ info.change_kind = "add"
           /\ old_change.change_kind \notin {"delete", "reset"}

\* C30: when svn_fs_x__txn_changes_fetch has folded the changes log, every
\* record of the log that the folder reached and that is a non-reset
\* change without node-rev id (first for its path or not), has an id other
\* than that of the existing non-delete record, is none of add, replace,
\* move, movereplace, reset after a delete, or is an add on a record that
\* is neither delete nor reset, ended the folding with Corrupt and left
\* the map as it was before the record
C30_FolderRejects ==
  \A w \in Workers :
    th[w].op = "changes"
    => LET log == txns[th[w].txn].log IN
       \A i \in 1..Len(log) :
         LET before == process_changes(EmptyChanges, SubSeq(log, 1, i - 1), 1)
             upto == process_changes(EmptyChanges, SubSeq(log, 1, i), 1)
         IN /\ before.err = "OK"
            /\ MustReject(before.changes[log[i].path], ChangeInfo(log[i]))
            => /\ upto.err = "Corrupt"
               /\ upto.changes = before.changes
               /\ th[w].err = "Corrupt"


\* thread W has folded the changes log of its transaction without error;
\* the log is not empty
FoldedLog(w) ==
  /\ th[w].op = "changes" /\ th[w].pc = "ch_fetched"
  /\ Len(txns[th[w].txn].log) >= 1

\* the last record of the log thread W folded, the map the folder had
\* before that record and the record that map had for its path
LastChange(w) ==
  LET log == txns[th[w].txn].log IN ChangeInfo(log[Len(log)])

LastPath(w) ==
  LET log == txns[th[w].txn].log IN log[Len(log)].path

MapBefore(w) ==
  LET log == txns[th[w].txn].log IN
  process_changes(EmptyChanges, SubSeq(log, 1, Len(log) - 1), 1).changes

OldRecord(w) == MapBefore(w)[LastPath(w)]

\* C31: an accepted delete of a path whose folded record is an add or a
\* move leaves no record for the path; an accepted delete over any other
\* record leaves a delete record without copyfrom path and revision
C31_DeleteFolds ==
  \A w \in Workers :
    FoldedLog(w) /\ LastChange(w).change_kind = "delete"
    /\ OldRecord(w) # NoChange
    => LET new == th[w].changed_paths[LastPath(w)] IN
       IF OldRecord(w).change_kind \in {"add", "move"}
       THEN new = NoChange
       ELSE /\ new # NoChange
            /\ new.change_kind = "delete"
            /\ new.copyfrom_path = NoPath
            /\ new.copyfrom_rev = 0 - 1

\* C31 witness: a replacing move with a copy source was deleted again
C31_Witness ==
  \E w \in Workers :
    /\ FoldedLog(w) /\ LastChange(w).change_kind = "delete"
    /\ OldRecord(w) # NoChange
    /\ OldRecord(w).change_kind = "movereplace"
    /\ OldRecord(w).copyfrom_path # NoPath
    /\ th[w].changed_paths[LastPath(w)] # NoChange

\* C32: an accepted add or replace over a delete record gives a replace
\* record, an accepted move or movereplace over a delete record a
\* movereplace record; the record has the node-rev id, node kind,
\* text_mod, prop_mod and copyfrom of the new change and nothing else
C32_ReplaceAfterDelete ==
  \A w \in Workers :
    FoldedLog(w) /\ OldRecord(w) # NoChange
    /\ OldRecord(w).change_kind = "delete"
    /\ LastChange(w).change_kind \in {"add", "replace", "move", "movereplace"}
    => LET new == th[w].changed_paths[LastPath(w)]
           info == LastChange(w)
       IN /\ new # NoChange
          /\ new.change_kind = IF info.change_kind \in {"add", "replace"}
                               THEN "replace" ELSE "movereplace"
          /\ new = [info EXCEPT !.change_kind = new.change_kind]

\* C32 witness: a file was deleted and a directory copied to its path
C32_Witness ==
  \E w \in Workers :
    /\ FoldedLog(w) /\ OldRecord(w) # NoChange
    /\ OldRecord(w).change_kind = "delete"
    /\ OldRecord(w).node_rev_id = 1
    /\ LastChange(w).change_kind = "add"
    /\ LastChange(w).node_rev_id = 2
    /\ LastChange(w).copyfrom_path # NoPath
    /\ th[w].changed_paths[LastPath(w)].change_kind = "replace"

\* C33: folding one change for path P leaves the records of all other
\* paths as they were; an accepted reset of a recorded path removes the
\* record, an accepted modify of a recorded path leaves the record with
\* text_mod and prop_mod each true iff it was true in the record or in the
\* change and nothing else changed, and the first change for a path is
\* recorded as it is
C33_FoldTouchesOnePath ==
  \A w \in Workers :
    FoldedLog(w)
    => LET log == txns[th[w].txn].log
           info == LastChange(w)
           old == OldRecord(w)
           new == th[w].changed_paths[LastPath(w)]
           r == fold_change(MapBefore(w), log[Len(log)])
       IN /\ \A q \in Paths \ {LastPath(w)} : r.changes[q] = MapBefore(w)[q]
          /\ r.changes[LastPath(w)] = new
          /\ old = NoChange => new = info
          /\ old # NoChange /\ info.change_kind = "reset" => new = NoChange
          /\ old # NoChange /\ info.change_kind = "modify"
               => new = [old EXCEPT
                           !.text_mod = old.text_mod \/ info.text_mod,
                           !.prop_mod = old.prop_mod \/ info.prop_mod]

\* C33 witness: a property change was folded into the record of a text
\* change while another path has a record
C33_Witness ==
  \E w \in Workers :
    /\ FoldedLog(w) /\ OldRecord(w) # NoChange
    /\ LastChange(w).change_kind = "modify" /\ LastChange(w).prop_mod
    /\ OldRecord(w).text_mod /\ ~OldRecord(w).prop_mod
    /\ th[w].changed_paths[LastPath(w)].text_mod
    /\ th[w].changed_paths[LastPath(w)].prop_mod
    /\ Len(txns[th[w].txn].log) >= 2

\* ------------------------------------------- directory delta log (4.4)
\* the number of svn_fs_x__set_entry calls on the directory
MaxCalls == 3

EntryNamesOfDir == {"a", "b"}

\* a directory entry (kind, id), and the value of a name without entry
NoEntry == <<"none", 0>>

DirEntries == {<<"file", 1>>, <<"dir", 2>>}

EmptyDir == [name \in EntryNamesOfDir |-> NoEntry]

\* unparse_dir_entry: the text "<kind> <id>" of an entry, and the entry
\* that svn_fs_x__parse_dir_entries reads from such a text
unparse_dir_entry(kind, id) == <<kind, " ", svn__ui64toa(id)>>

parse_dir_entry(val) == <<val[1], svn_cstring_atoui64(val[3]).value>>

\* unparse_dir_entries and svn_hash_write2: the snapshot of ENTRIES, one
\* K/V record per entry
unparse_dir_entries(entries) ==
  [name \in {n \in EntryNamesOfDir : entries[n] # NoEntry} |->
     unparse_dir_entry(entries[name][1], entries[name][2])]

\* the records appended for a change: "K name V value" sets the entry,
\* "D name" deletes it
IncrementalEntry(name, new_entry) ==
  IF new_entry # NoEntry
  THEN [op |-> "K", name |-> name,
        val |-> unparse_dir_entry(new_entry[1], new_entry[2])]
  ELSE [op |-> "D", name |-> name, val |-> <<>>]

\* svn_hash_read_incremental over the children file F: the snapshot, then
\* the incremental records in file order
RECURSIVE ReplayLog(_, _)
ReplayLog(entries, log) ==
  IF log = <<>> THEN entries
  ELSE ReplayLog([entries EXCEPT ![Head(log).name] =
                    IF Head(log).op = "K"
                    THEN parse_dir_entry(Head(log).val) ELSE NoEntry],
                 Tail(log))

ReadChildren(f) ==
  ReplayLog([name \in EntryNamesOfDir |->
               IF name \in DOMAIN f.snapshot
               THEN parse_dir_entry(f.snapshot[name]) ELSE NoEntry],
            f.log)

\* svn_fs_x__rep_contents_dir on the directory of transaction T: the
\* children file when the data rep is mutable, else the entries of the
\* immutable rep (none without a rep)
rep_contents_dir(t) ==
  LET nr == txns[t].noderevs[3] IN
  IF nr.data_rep # NoRep /\ is_txn(nr.data_rep.change_set)
  THEN ReadChildren(txns[t].children)
  ELSE IF nr.data_rep = NoRep THEN EmptyDir
  ELSE txns[t].base_entries

\* svn_fs_x__replace_dir_entry on the cached directory
svn_fs_x__replace_dir_entry(entries, name, new_entry) ==
  [entries EXCEPT ![name] = new_entry]

\* SpecDir: thread 1 changes the entries of one directory of
\* transaction 0, a directory of the base revision or a new one, which
\* may be in the directory cache.
InitDir ==
  /\ current = 1
  /\ revs = [r \in Revs |-> IF r <= current THEN BaseRev ELSE NoRev]
  /\ txn_current = 1
  /\ \E base \in {EmptyDir, [EmptyDir EXCEPT !["a"] = <<"file", 1>>]} :
       \E rep \in {NoRep, [change_set |-> <<"rev", 1>>, number |-> 5,
                           sha1 |-> <<>>]} :
         \E cached \in BOOLEAN :
           /\ rep = NoRep => base = EmptyDir
           /\ txns = [t \in TxnIds |->
                        IF t = 0
                        THEN [base_entries |-> base,
                              children |-> [exists |-> FALSE,
                                            snapshot |-> <<>>,
                                            log |-> <<>>],
                              noderevs |->
                                [n \in {3} |->
                                   [TxnNodeRev("dir") EXCEPT
                                      !.data_rep = rep]]]
                               @@ FreshTxn(0, current,
                                           CHOOSE src \in
                                             RootNodeRevs(current) :
                                             src.copyfrom_rev = 0 - 1)
                        ELSE NoTxnFiles]
           /\ th = [w \in Workers |->
                      [dir_cache |-> [cached |-> cached, entries |-> base]]
                        @@ Idle]
           /\ hist = [current0 |-> current, minted |-> <<0>>,
                      assigned |-> <<>>, base0 |-> base, calls |-> <<>>,
                      last |-> "none", snapshots |-> 0,
                      rewritten |-> FALSE]
  /\ flocks = [write |-> 0, txncur |-> 0, proto |-> [t \in TxnIds |-> 0]]
  /\ rep_cache = {}
  /\ mutex = [p \in Procs |-> [write |-> 0, txncur |-> 0]]
  /\ registry = [p \in Procs |-> <<>>]
  /\ proc = <<1, 1>>

\* svn_fs_x__set_entry lines 1493-1522 and 1549-1563 on the children file
\* F of the directory with node-rev NR: with an immutable or absent data
\* rep the CONTENTS of the directory are dumped to the file and the data
\* rep becomes mutable with SVN_FS_X__ITEM_INDEX_UNUSED; then, if APPENDED,
\* the record of the change is appended
set_entry_files(f, nr, t, contents, name, new_entry, appended) ==
  LET first == nr.data_rep = NoRep \/ ~is_txn(nr.data_rep.change_set)
      opened == IF first
                THEN [exists |-> TRUE,
                      snapshot |-> unparse_dir_entries(contents),
                      log |-> IF f.exists THEN f.log ELSE <<>>]
                ELSE f
  IN [children |->
        [opened EXCEPT
           !.log = IF appended
                   THEN Append(@, IncrementalEntry(name, new_entry))
                   ELSE @],
      data_rep |-> IF first
                   THEN [change_set |-> <<"txn", t>>, number |-> 0,
                         sha1 |-> <<>>]
                   ELSE nr.data_rep]

\* svn_fs_x__set_entry(parent, NAME, id or delete as NEW_ENTRY) lines
\* 1476-1570: the files as in set_entry_files; in between the cached
\* directory, if there is one, is updated (1524-1546).  The call fails
\* before it changed anything, or at the append after the cache was
\* updated, or it succeeds.
svn_fs_x__set_entry_log(w, t, name, new_entry) ==
  LET nr == txns[t].noderevs[3]
      first == nr.data_rep = NoRep \/ ~is_txn(nr.data_rep.change_set)
      done(appended) ==
        set_entry_files(txns[t].children, nr, t, rep_contents_dir(t),
                        name, new_entry, appended)
      cache == IF th[w].dir_cache.cached
               THEN [th[w].dir_cache EXCEPT
                       !.entries = svn_fs_x__replace_dir_entry(
                                     @, name, new_entry)]
               ELSE th[w].dir_cache
      call == [name |-> name, new_entry |-> new_entry]
  IN
  /\ At(w, "idle") /\ HasTxn(w, t)
  /\ Len(hist.calls) < MaxCalls
  /\ \E appended \in BOOLEAN :
       /\ txns' = [txns EXCEPT
                     ![t].children = done(appended).children,
                     ![t].noderevs[3].data_rep = done(appended).data_rep]
       /\ Set(w, [dir_cache |-> cache])
       /\ hist' = [hist EXCEPT
                     !.calls = Append(@, call @@ [ok |-> appended]),
                     !.last = IF appended THEN "OK" ELSE "IO",
                     !.snapshots = IF first THEN @ + 1 ELSE @,
                     !.rewritten = @ \/ (done(appended).children.snapshot
                                           # txns[t].children.snapshot
                                         /\ ~first)]
  /\ UNCHANGED <<current, revs, txn_current, rep_cache,
                 flocks, mutex, registry, proc>>

\* a directory read (svn_fs_x__rep_contents_dir through the cache): a
\* miss reads the directory and caches it
ReadDirectory(w, t) ==
  /\ At(w, "idle") /\ HasTxn(w, t)
  /\ ~th[w].dir_cache.cached
  /\ Set(w, [dir_cache |-> [cached |-> TRUE,
                            entries |-> rep_contents_dir(t)]])
  /\ UNCHANGED <<diskVars, flocks, mutex, registry, proc, hist>>

NextDir ==
  \/ \E name \in EntryNamesOfDir : \E e \in DirEntries \cup {NoEntry} :
       svn_fs_x__set_entry_log(1, 0, name, e)
  \/ ReadDirectory(1, 0)

SpecDir == InitDir /\ [][NextDir]_vars

\* --------------------------------- shared-txn registry as objects (4.2)
\* the number of fs_x_shared_txn_data_t objects the common pool has room for
MaxObjects == 3

\* objects are numbered from 1; NULL is the object 0
Objects == 1..MaxObjects
NULL == 0

\* memory that is not an object: never allocated, or its pool destroyed
NoObject == [allocated |-> FALSE, txn_id |-> 0, being_written |-> FALSE,
             next |-> NULL]

\* fs_x_shared_data_t of a process without transactions
NoSharedData == [txns |-> NULL, free_txn |-> NULL,
                 heap |-> [o \in Objects |-> NoObject]]

\* the loops at lines 95-97 and 141-143: the first object with TXN_ID on
\* the list that starts at TXN, with the object before it (NULL for the
\* head); txn is NULL when there is none
RECURSIVE FindSharedTxn(_, _, _, _)
FindSharedTxn(heap, prev, txn, txn_id) ==
  IF txn = NULL THEN [txn |-> NULL, prev |-> prev]
  ELSE IF heap[txn].txn_id = txn_id THEN [txn |-> txn, prev |-> prev]
  ELSE FindSharedTxn(heap, txn, heap[txn].next, txn_id)

\* variant of get_shared_txn_object: being_written of the object is left
\* as it is
get_shared_txn_object_stale(ffsd, txn_id, create_new, fresh) ==
  LET txn == FindSharedTxn(ffsd.heap, NULL, ffsd.txns, txn_id).txn
      new == IF ffsd.free_txn # NULL THEN ffsd.free_txn ELSE fresh
  IN IF txn # NULL \/ ~create_new
     THEN [ffsd |-> ffsd, txn |-> txn]
     ELSE [ffsd |->
             [txns |-> new, free_txn |-> NULL,
              heap |-> [ffsd.heap EXCEPT
                          ![new] = [allocated |-> TRUE, txn_id |-> txn_id,
                                    being_written |-> @.being_written,
                                    next |-> ffsd.txns]]],
           txn |-> new]

\* get_shared_txn lines 86-127 on the shared data FFSD: the object of
\* TXN_ID if it is on the list; else NULL without CREATE_NEW; else the
\* object of the free list if there is one, or the object FRESH from a
\* new subpool, gets TXN_ID and being_written FALSE and is linked at the
\* head of the list
get_shared_txn_object(ffsd, txn_id, create_new, fresh) ==
  LET txn == FindSharedTxn(ffsd.heap, NULL, ffsd.txns, txn_id).txn
      new == IF ffsd.free_txn # NULL THEN ffsd.free_txn ELSE fresh
  IN IF txn # NULL \/ ~create_new
     THEN [ffsd |-> ffsd, txn |-> txn]
     ELSE [ffsd |->
             [txns |-> new, free_txn |-> NULL,
              heap |-> [ffsd.heap EXCEPT
                          ![new] = [allocated |-> TRUE, txn_id |-> txn_id,
                                    being_written |-> FALSE,
                                    next |-> ffsd.txns]]],
           txn |-> new]

\* variant of free_shared_txn_object: the object stays linked
free_shared_txn_object_linked(ffsd, txn_id) ==
  LET found == FindSharedTxn(ffsd.heap, NULL, ffsd.txns, txn_id)
      txn == found.txn
  IN IF txn = NULL THEN ffsd
     ELSE IF ffsd.free_txn = NULL
     THEN [ffsd EXCEPT !.free_txn = txn]
     ELSE [ffsd EXCEPT !.heap[txn] = NoObject]

\* free_shared_txn lines 133-159: the object of TXN_ID is unlinked from
\* the list; it becomes the object of the free list if that is empty,
\* else its pool is destroyed
free_shared_txn_object(ffsd, txn_id) ==
  LET found == FindSharedTxn(ffsd.heap, NULL, ffsd.txns, txn_id)
      txn == found.txn
      unlinked ==
        IF found.prev # NULL
        THEN [ffsd EXCEPT !.heap[found.prev].next = ffsd.heap[txn].next]
        ELSE [ffsd EXCEPT !.txns = ffsd.heap[txn].next]
  IN IF txn = NULL THEN ffsd
     ELSE IF ffsd.free_txn = NULL
     THEN [unlinked EXCEPT !.free_txn = txn]
     ELSE [unlinked EXCEPT !.heap[txn] = NoObject]

\* SpecRegistry: the transaction list of process 1, all calls made with
\* the txn-list mutex held
InitRegistry ==
  /\ current = 0
  /\ revs = [r \in Revs |-> IF r <= current THEN BaseRev ELSE NoRev]
  /\ txn_current = 0
  /\ txns = [t \in TxnIds |-> NoTxnFiles]
  /\ flocks = [write |-> 0, txncur |-> 0, proto |-> [t \in TxnIds |-> 0]]
  /\ rep_cache = {}
  /\ mutex = [p \in Procs |-> [write |-> 0, txncur |-> 0]]
  /\ registry = [p \in Procs |-> NoSharedData]
  /\ th = [w \in Workers |-> Idle]
  /\ proc = <<1, 1>>
  /\ hist = [current0 |-> current, minted |-> <<>>, assigned |-> <<>>,
             reused_written |-> FALSE,
             last |-> [op |-> "none", txn_id |-> 0, txn |-> NULL,
                       created |-> FALSE]]

\* get_shared_txn(fs, txn_id, TRUE), as in get_writable_proto_rev_body
\* line 374; a new subpool gives memory that is not in use
GetOrCreate(p, txn_id) ==
  \E fresh \in Objects \cup {NULL} :
    LET r == get_shared_txn_object(registry[p], txn_id, TRUE, fresh)
        created == r.ffsd # registry[p]
        reused == created /\ registry[p].free_txn # NULL
    IN /\ IF created /\ ~reused
          THEN fresh # NULL /\ ~registry[p].heap[fresh].allocated
          ELSE fresh = NULL
       /\ registry' = [registry EXCEPT ![p] = r.ffsd]
       /\ hist' = [hist EXCEPT
                     !.last = [op |-> "get_or_create",
                               txn_id |-> txn_id, txn |-> r.txn,
                               created |-> created],
                     !.reused_written =
                        reused /\ registry[p].heap[r.txn].being_written]
       /\ UNCHANGED <<diskVars, flocks, mutex, th, proc>>

\* get_shared_txn(fs, txn_id, FALSE), as in unlock_proto_rev_body line 312
Lookup(p, txn_id) ==
  LET r == get_shared_txn_object(registry[p], txn_id, FALSE, NULL) IN
  /\ registry' = [registry EXCEPT ![p] = r.ffsd]
  /\ hist' = [hist EXCEPT !.last = [op |-> "lookup", txn_id |-> txn_id,
                                    txn |-> r.txn, created |-> FALSE]]
  /\ UNCHANGED <<diskVars, flocks, mutex, th, proc>>

\* free_shared_txn(fs, txn_id), as in purge_shared_txn_body line 498
Free(p, txn_id) ==
  /\ registry' = [registry EXCEPT
                    ![p] = free_shared_txn_object(@, txn_id)]
  /\ hist' = [hist EXCEPT
                !.last = [op |-> "free", txn_id |-> txn_id,
                          txn |-> FindSharedTxn(registry[p].heap, NULL,
                                                registry[p].txns,
                                                txn_id).txn,
                          created |-> FALSE]]
  /\ UNCHANGED <<diskVars, flocks, mutex, th, proc>>

\* get_writable_proto_rev_body line 432 and unlock_proto_rev_body line
\* 337: being_written of the object of TXN_ID is set and reset
WriteFlag(p, txn_id, b) ==
  LET txn == FindSharedTxn(registry[p].heap, NULL, registry[p].txns,
                           txn_id).txn
  IN /\ txn # NULL
     /\ registry[p].heap[txn].being_written # b
     /\ registry' = [registry EXCEPT ![p].heap[txn].being_written = b]
     /\ hist' = [hist EXCEPT !.last = [op |-> "flag", txn_id |-> txn_id,
                                       txn |-> txn, created |-> FALSE]]
     /\ UNCHANGED <<diskVars, flocks, mutex, th, proc>>

NextRegistry ==
  \/ \E txn_id \in TxnIds \cup {2} : GetOrCreate(1, txn_id)
  \/ \E txn_id \in TxnIds \cup {2} : Lookup(1, txn_id)
  \/ \E txn_id \in TxnIds \cup {2} : Free(1, txn_id)
  \/ \E txn_id \in TxnIds \cup {2} : \E b \in BOOLEAN :
       WriteFlag(1, txn_id, b)

SpecRegistry == InitRegistry /\ [][NextRegistry]_vars

\* ------------------------------------------------ tree rewrite: properties
\* the revision the tree is written to, the node-revs written so far, and
\* the node-rev the transaction holds for a written one
TreeRev == hist.current0 + 1

Written == txns[0].final

TxnNodeRevOf(f) == txns[0].noderevs[f.node]

IdRevisionTagged(id) ==
  /\ svn_fs_x__is_revision(id.node_id.change_set)
  /\ svn_fs_x__is_revision(id.copy_id.change_set)
  /\ svn_fs_x__is_revision(id.noderev_id.change_set)

\* the entries of the written directory F that pointed into the
\* transaction name the written id of the child, an id of the new
\* revision, and the child was written before F, the I-th node-rev
EntriesFinal(f, i) ==
  \A name \in DOMAIN TxnNodeRevOf(f).entries :
    svn_fs_x__id_is_txn(TxnNodeRevOf(f).entries[name]) =>
      /\ f.entries[name].noderev_id.change_set = <<"rev", TreeRev>>
      /\ IdRevisionTagged(f.entries[name])
      /\ \E j \in 1..(i - 1) :
           /\ Written[j].node = EntryNode(name)
           /\ Written[j].id = f.entries[name]

\* rep REP of a written node-rev, mutable as ORIG in the transaction, is
\* tagged with the new revision
Retagged(orig, rep) ==
  (orig # NoRep /\ is_txn(orig.change_set)) =>
    rep.change_set = <<"rev", TreeRev>>

\* ... or is the rep of an earlier revision that rep sharing found
RetaggedOrShared(orig, rep) ==
  /\ rep # NoRep => svn_fs_x__is_revision(rep.change_set)
  /\ (orig # NoRep /\ is_txn(orig.change_set)) =>
       \/ rep.change_set = <<"rev", TreeRev>>
       \/ rep \in rep_cache

\* C34 as stated: every node-rev the tree rewrite wrote has revision-tagged
\* node, copy and node-rev ids, its mutable data and prop reps carry the
\* new revision, every directory entry that pointed to a node of the
\* transaction names the new id of that node, and children are written
\* before their directory.
C34_TreeRetagged ==
  \A i \in 1..Len(Written) :
    LET f == Written[i] IN
    /\ IdRevisionTagged(f.id)
    /\ Retagged(TxnNodeRevOf(f).data_rep, f.data_rep)
    /\ Retagged(TxnNodeRevOf(f).prop_rep, f.prop_rep)
    /\ EntriesFinal(f, i)

\* C34, amended: as above, but a mutable rep whose content rep sharing
\* found in an earlier revision is replaced by that revision's rep; no
\* rep and no id of a written node-rev is transaction-tagged.
C34_TreeRevisionTagged ==
  \A i \in 1..Len(Written) :
    LET f == Written[i] IN
    /\ IdRevisionTagged(f.id)
    /\ RetaggedOrShared(TxnNodeRevOf(f).data_rep, f.data_rep)
    /\ RetaggedOrShared(TxnNodeRevOf(f).prop_rep, f.prop_rep)
    /\ EntriesFinal(f, i)

\* the rewrite has completed for a tree in which the file b of the copied
\* directory d was added with content, and the root's entry of d and d's
\* entry of b were replaced
C34_Witness ==
  /\ th[1].pc = "c_shard"
  /\ Len(Written) = 4
  /\ \E i \in 1..4 :
       /\ Written[i].node = 2
       /\ svn_fs_x__id_is_txn(TxnNodeRevOf(Written[i]).id)
       /\ TxnNodeRevOf(Written[i]).id.node_id.change_set = <<"txn", 0>>
       /\ Written[i].data_rep.change_set = <<"rev", TreeRev>>
  /\ \E i \in 1..4 :
       /\ Written[i].node = 3
       /\ TxnNodeRevOf(Written[i]).id.copy_id.change_set = <<"txn", 0>>
       /\ Written[i].entries.b # TxnNodeRevOf(Written[i]).entries.b
       /\ Written[i].data_rep.change_set = <<"rev", TreeRev>>

\* the root node-rev of the transaction, the difference of its
\* predecessor count to that of the root of the head revision, and the
\* written root node-rev, if any
TxnRoot == txns[0].noderevs[RootNode]

CountDifference == TxnRoot.predecessor_count - hist.head_count

RootWritten == \E i \in 1..Len(Written) : Written[i].node = RootNode

\* the tree rewrite reached the root and left it behind
RootDecided ==
  /\ th[1].op = "commit" /\ th[1].rewriting
  /\ \/ th[1].pc = "c_shard"
     \/ th[1].pc = "c_write" /\ th[1].walk = <<>>
     \/ th[1].pc \in {"destroy", "ret"}

RECURSIVE CoveredFrom(_, _, _)
CoveredFrom(entries, offset, size) ==
  IF offset = size
  THEN \A i \in 1..Len(entries) : entries[i].offset < size
  ELSE \E i \in 1..Len(entries) :
         /\ entries[i].offset = offset
         /\ entries[i].size > 0
         /\ \A j \in 1..Len(entries) :
              entries[j].offset = offset => j = i
         /\ offset + entries[i].size <= size
         /\ CoveredFrom(entries, offset + entries[i].size, size)

CoveredOnce(entries, size) ==
  /\ Len(entries) = Cardinality({entries[i].offset : i \in 1..Len(entries)})
  /\ CoveredFrom(entries, 0, size)

\* every log-to-phys entry has a phys-to-log entry that starts at its
\* offset and holds its item index
L2PInP2L(l2p, p2l) ==
  \A i \in 1..Len(l2p) :
    \E j \in 1..Len(p2l) :
      /\ p2l[j].offset = l2p[i].offset
      /\ p2l[j].items = <<l2p[i].item_index>>

\* the tree rewrite and the changed-paths step of the commit of
\* transaction 0 have completed
TreeCommitted == th[1].op = "commit" /\ th[1].pc = "c_shard"

CommitAt(w, t, pcs) ==
  /\ th[w].op = "commit" /\ th[w].txn = t
  /\ th[w].err = "OK" /\ th[w].pc \in pcs

\* from the first append to the rename / from the close to the rename
AppendToRename == {"c_write", "c_shard", "c_l2p", "c_p2l", "c_move"}

CloseToRename == {"c_shard", "c_l2p", "c_p2l", "c_move"}

\* another thread holds a handle of the locked rev-lock file of T or is
\* past get_writable_proto_rev_body for it
OtherWriter(w, t) ==
  \E v \in Workers \ {w} :
    /\ th[v].txn = t
    /\ th[v].op \in {"rep", "commit"}
    /\ th[v].lockcookie \/ th[v].pc \in {"openproto", "r_header", "r_open",
                                          "c_write"}

\* the lock is held: the file lock, and being_written in the committing
\* process
CommitHoldsLock(w, t) ==
  /\ flocks.proto[t] = w
  /\ th[w].lockcookie
  /\ being_written(registry[proc[w]], t)

\* C36, the lock: from before its first append until the rename the
\* commit holds the proto-rev lock; between the close and the rename no
\* other thread of any process holds the lock or is writing; once the
\* commit is past the rename and the unlock, it holds the lock no more,
\* so that the purge runs without it.
ProtoLockHeld ==
  \A w \in Workers : \A t \in TxnIds :
    /\ CommitAt(w, t, AppendToRename) => CommitHoldsLock(w, t)
    /\ CommitAt(w, t, CloseToRename) => ~OtherWriter(w, t)
    /\ CommitAt(w, t, {"c_revprop", "c_current", "purge", "p_dir",
                       "p_files"}) =>
         flocks.proto[t] # w /\ ~th[w].lockcookie

\* C36, the steps: while a commit is between the close and the rename,
\* the proto-rev file of its transaction does not grow, and the lock of a
\* commit is given up by the unlock that follows the rename, by the
\* pool of a failed commit or with the process
ProtoLockSteps ==
  \A w \in Workers : \A t \in TxnIds :
    /\ CommitAt(w, t, CloseToRename) => txns'[t].proto <= txns[t].proto
    /\ (CommitAt(w, t, AppendToRename) /\ flocks'.proto[t] # w) =>
         \/ th'[w].op # "commit"
         \/ th[w].err # "OK"

\* C36: during a commit the proto-rev lock is acquired before the first
\* append and released only after the rename of the proto-rev file; from
\* the close of the file to the rename no rep writer of any thread or
\* process acquires the lock or appends; the lock is released before the
\* transaction directory is purged.
C36_CommitKeepsProtoLock == []ProtoLockHeld /\ [][ProtoLockSteps]_vars

\* a commit is about to rename the proto-rev file while a rep write of
\* another process to the same transaction was turned away
C36_Witness ==
  \E w, v \in Workers :
    /\ proc[w] # proc[v]
    /\ CommitAt(w, 0, {"c_move"})
    /\ th[v].op = "rep" /\ th[v].txn = 0
    /\ th[v].err = "RepBeingWritten"

\* ------------------------------------------ directory delta log: properties
\* the map that the calls CALLS make of the directory ENTRIES: the last
\* call of a name wins, a delete removes the name
RECURSIVE ApplyCalls(_, _)
ApplyCalls(entries, calls) ==
  IF calls = <<>> THEN entries
  ELSE ApplyCalls([entries EXCEPT ![Head(calls).name] =
                     Head(calls).new_entry],
                  Tail(calls))

SucceededCall(c) == c.ok

CallsMap == ApplyCalls(hist.base0, SelectSeq(hist.calls, SucceededCall))

\* C37: the directory read from the base snapshot and the delta log
\* equals the map made by the set_entry calls in order; after each
\* successful call the cached directory equals that map; the snapshot is
\* written only by the first call, while the data rep is immutable or
\* absent, and that call makes the data rep mutable with the unused item
\* index.
C37_DirectoryLogRefinesCalls ==
  /\ rep_contents_dir(0) = CallsMap
  /\ (hist.last = "OK" /\ th[1].dir_cache.cached) =>
       th[1].dir_cache.entries = CallsMap
  /\ hist.snapshots <= 1 /\ ~hist.rewritten
  /\ hist.snapshots = 1 =>
       /\ txns[0].children.exists
       /\ txns[0].noderevs[3].data_rep
            = [change_set |-> <<"txn", 0>>, number |-> 0, sha1 |-> <<>>]

\* ------------------------------------------------- corrected deletions
\* the moves of the folded changes of thread W, and the greatest path of
\* a move that does not sort behind D
MovePaths(w) ==
  {p \in Paths : /\ th[w].changed_paths[p] # NoChange
                 /\ th[w].changed_paths[p].change_kind \in MoveKinds
                 /\ th[w].changed_paths[p].copyfrom_path # NoPath}

ClosestMove(w, d) ==
  CHOOSE m \in MovePaths(w) :
    /\ ~PathLess(d, m)
    /\ \A n \in MovePaths(w) : ~PathLess(d, n) => ~PathLess(m, n)

\* verify_moves has corrected the deletions of thread W
MovesVerified(w) ==
  /\ th[w].op = "changes"
  /\ th[w].pc \in {"ch_verified", "crashed", "ch_failed"}
  /\ MovePaths(w) # {}

\* C38: every deletion path D at or below the target of a move has been
\* rewritten to the copyfrom path of the greatest move path <= D, joined
\* with the path of D relative to that move; every other deletion path
\* is unchanged.
C38_DeletionsFollowMoves ==
  \A w \in Workers :
    MovesVerified(w) =>
      \A d \in DOMAIN th[w].deletions :
        IF \E m \in MovePaths(w) : ~PathLess(d, m)
        THEN LET m == ClosestMove(w, d) IN
             IF svn_dirent_is_ancestor(m, d)
             THEN th[w].deletions[d]
                    = svn_dirent_join(
                        th[w].changed_paths[m].copyfrom_path,
                        svn_dirent_skip_ancestor(m, d).relpath)
             ELSE th[w].deletions[d] = d
        ELSE th[w].deletions[d] = d

\* ------------------------------------------ registry objects: properties
\* the objects on the transaction list of process 1, in list order (the
\* walk stops after MaxObjects + 1 objects)
RECURSIVE ListObjects(_, _, _)
ListObjects(heap, txn, fuel) ==
  IF txn = NULL \/ fuel = 0 THEN <<>>
  ELSE <<txn>> \o ListObjects(heap, heap[txn].next, fuel - 1)

SharedList == ListObjects(registry[1].heap, registry[1].txns, MaxObjects + 1)

\* C40: the transaction list holds at most one object per txn_id (and
\* only live objects, each once); the object a free has removed is no
\* longer on the list, nor is any object with its txn_id; an object that
\* get_or_create has just created is at the head with being_written
\* FALSE; the object of the one-slot free list is live and not on the
\* list.
C40_RegistryWellFormed ==
  LET l == SharedList
      heap == registry[1].heap
      last == hist.last
  IN
  /\ Len(l) <= MaxObjects
  /\ \A i, j \in 1..Len(l) :
       (l[i] = l[j] \/ heap[l[i]].txn_id = heap[l[j]].txn_id) => i = j
  /\ \A i \in 1..Len(l) : heap[l[i]].allocated
  /\ last.op = "free" =>
       \A i \in 1..Len(l) :
         l[i] # last.txn /\ heap[l[i]].txn_id # last.txn_id
  /\ (last.op = "get_or_create" /\ last.created) =>
       /\ registry[1].txns = last.txn
       /\ heap[last.txn].txn_id = last.txn_id
       /\ ~heap[last.txn].being_written
  /\ registry[1].free_txn # NULL =>
       /\ heap[registry[1].free_txn].allocated
       /\ \A i \in 1..Len(l) : l[i] # registry[1].free_txn

\* get_or_create has just taken the object of the free list, whose
\* being_written flag was still set from its former transaction, while
\* another transaction is on the list
C40_Witness ==
  /\ hist.last.op = "get_or_create" /\ hist.last.created
  /\ hist.reused_written
  /\ Len(SharedList) = 2
  /\ registry[1].free_txn = NULL

====
